---- MODULE Spec2Model ----
(***************************************************************************)
(* A model of the XG scene-graph codec of io_scene_xg: the scene reader    *)
(* (xgscenereader.py), the scene writer (xgscenewriter.py), the scene      *)
(* graph (xgscene.py) and the animation-separation codec (xganimsep.py).   *)
(*                                                                         *)
(* A file is a sequence of units.  A unit is a Pascal string                *)
(* [k |-> "p", s |-> string] of 1 + Len(s) bytes, a 4-byte little-endian   *)
(* word [k |-> "w", v |-> Int], or a run of raw bytes                      *)
(* [k |-> "raw", s |-> string] of Len(s) bytes (the header fields).  A     *)
(* word is represented by the signed reading of its 32 bits: the int32    *)
(* and uint32 codecs are bijections on the 32 bits and keep the            *)
(* representation, the float32 codec keeps it but for signalling NaNs      *)
(* (unpack_float); a count whose representation is negative is a count of  *)
(* 2^31 or more.                                                           *)
(***************************************************************************)
EXTENDS Integers, Sequences, FiniteSets, TLC

(***************************************************************************)
(* Bounds of the model.                                                    *)
(***************************************************************************)
\* the declarations, bodies, attributes, dag nodes and dag children of a stream
MaxItems == 4
\* the length of a counted array
MaxArr == 1
\* the records of an animation-separation file
MaxRecs == 3
\* the length of a vertex-target array
MaxVT == 5
\* longest index array given to tridata_to_prims
MaxTri == 5
\* the keys of the dag given to the importer
MaxDag == 2
\* the longest triangle strip of a mesh
MaxStrip == 4
\* the scale keys of an interpolator
MaxKeys == 2
MaxName == 3
MaxMeshes == 2
MaxObjs == 2
MaxKids == 2
MaxCalls == 4
MaxTop == 4
MaxVerts == 2
MaxRotKeys == 3
MaxPlayback == 4
MaxWalkItems == 5

(***************************************************************************)
(* xgscene.py: the node classes and what is legal for each.                *)
(***************************************************************************)
NodeClasses ==
    { "xgBgGeometry", "xgBgMatrix", "xgBone", "xgDagMesh", "xgDagTransform",
      "xgEnvelope", "xgMaterial", "xgMultiPassMaterial", "xgNormalInterpolator",
      "xgQuatInterpolator", "xgShapeInterpolator", "xgTexCoordInterpolator",
      "xgTexture", "xgTime", "xgVec3Interpolator", "xgVertexInterpolator" }

\* the annotations of each class that start with neither "_" nor "input"
ValidPropertyNames(type) ==
    CASE type = "xgBgGeometry" -> {"density", "vertices"}
      [] type = "xgBgMatrix" -> {"position", "rotation", "scale"}
      [] type = "xgBone" -> {"restMatrix"}
      [] type = "xgDagMesh" ->
            {"primType", "primCount", "primData", "triFanCount", "triFanData",
             "triStripCount", "triStripData", "triListCount", "triListData",
             "cullFunc"}
      [] type = "xgDagTransform" -> {}
      [] type = "xgEnvelope" -> {"startVertex", "weights", "vertexTargets"}
      [] type = "xgMaterial" ->
            {"blendType", "shadingType", "diffuse", "specular", "flags",
             "textureEnv", "uTile", "vTile"}
      [] type = "xgMultiPassMaterial" -> {}
      [] type = "xgNormalInterpolator" -> {"type", "times", "keys", "targets"}
      [] type = "xgQuatInterpolator" -> {"type", "times", "keys"}
      [] type = "xgShapeInterpolator" -> {"type", "times", "keys", "targets"}
      [] type = "xgTexCoordInterpolator" -> {"type", "times", "keys", "targets"}
      [] type = "xgTexture" -> {"url", "mipmap_depth"}
      [] type = "xgTime" -> {"numFrames", "time"}
      [] type = "xgVec3Interpolator" -> {"type", "times", "keys"}
      [] type = "xgVertexInterpolator" -> {"type", "times", "keys", "targets"}
      [] OTHER -> {}

\* the annotations of each class that start with "input"
ValidInputAttributes(type) ==
    CASE type = "xgBgGeometry" -> {"inputGeometry"}
      [] type = "xgBgMatrix" ->
            {"inputPosition", "inputRotation", "inputScale", "inputParentMatrix"}
      [] type = "xgBone" -> {"inputMatrix"}
      [] type = "xgDagMesh" -> {"inputGeometry", "inputMaterial"}
      [] type = "xgDagTransform" -> {"inputMatrix"}
      [] type = "xgEnvelope" -> {"inputMatrix1", "inputGeometry"}
      [] type = "xgMaterial" -> {"inputTexture"}
      [] type = "xgMultiPassMaterial" -> {"inputMaterial"}
      [] type \in {"xgNormalInterpolator", "xgQuatInterpolator",
                   "xgShapeInterpolator", "xgTexCoordInterpolator",
                   "xgVec3Interpolator", "xgVertexInterpolator"} -> {"inputTime"}
      [] OTHER -> {}

(***************************************************************************)
(* The dispatch table shared by the reader and the writer.                 *)
(***************************************************************************)
U32Props ==
    { "blendType", "cullFunc", "flags", "mipmap_depth", "primCount", "primType",
      "shadingType", "startVertex", "textureEnv", "triFanCount", "triListCount",
      "triStripCount", "type", "uTile", "vTile" }
F1Props == {"density", "numFrames", "time"}
F3Props == {"position", "scale"}
F4Props == {"diffuse", "rotation", "specular"}
U32ListProps == {"primData", "triFanData", "triListData", "triStripData", "targets"}
InputAttribNames ==
    { "inputGeometry", "inputMaterial", "inputMatrix", "inputMatrix1",
      "inputParentMatrix", "inputPosition", "inputRotation", "inputScale",
      "inputTexture", "inputTime" }
\* the properties whose value is made of words
WordProps ==
    U32Props \cup F1Props \cup F3Props \cup F4Props \cup U32ListProps
        \cup {"times", "restMatrix", "vertexTargets", "vertices", "weights", "keys"}
\* every token a node body's dispatch knows
KnownTokens == WordProps \cup {"url"} \cup InputAttribNames

inputattrib_to_outputattrib(inputtype) ==
    CASE inputtype = "inputGeometry" -> "outputGeometry"
      [] inputtype = "inputMatrix" -> "outputMatrix"
      [] inputtype = "inputMatrix1" -> "envelopeMatrix"
      [] inputtype = "inputMaterial" -> "outputMaterial"
      [] inputtype = "inputPosition" -> "outputVec3"
      [] inputtype = "inputRotation" -> "outputQuat"
      [] inputtype = "inputScale" -> "outputVec3"
      [] inputtype = "inputParentMatrix" -> "outputMatrix"
      [] inputtype = "inputTexture" -> "outputTexture"
      [] inputtype = "inputTime" -> "outputTime"

(***************************************************************************)
(* Units and their sizes in bytes.                                         *)
(***************************************************************************)
P(s) == [k |-> "p", s |-> s, v |-> 0]
W(v) == [k |-> "w", s |-> "", v |-> v]
Raw(s) == [k |-> "raw", s |-> s, v |-> 0]
Words(vs) == [i \in 1..Len(vs) |-> W(vs[i])]

UnitSize(u) ==
    CASE u.k = "p" -> 1 + Len(u.s)
      [] u.k = "w" -> 4
      [] OTHER -> Len(u.s)

\* 1.0 as a float32: 0x3F800000
FloatOne == 1065353216

Max(a, b) == IF a >= b THEN a ELSE b

RECURSIVE Flatten(_)
Flatten(ss) == IF ss = <<>> THEN <<>> ELSE Head(ss) \o Flatten(Tail(ss))

(***************************************************************************)
(* xgscenereader.py: the binary readers.  ws is the run of words at the    *)
(* file position; a reader yields [ok, val, o]: whether the words were     *)
(* there (struct.unpack raises struct.error when they are not), the value, *)
(* and the number of words consumed so far.                                *)
(***************************************************************************)
NoWords == [ok |-> FALSE, val |-> <<>>, o |-> 0]

\* _read_uint32(), _read_int32(), _read_float32() without a size
_read_word(ws, o) ==
    IF o + 1 <= Len(ws) THEN [ok |-> TRUE, val |-> ws[o + 1], o |-> o + 1]
    ELSE NoWords

\* _read_uint32(size), _read_int32(size), _read_float32(size)
_read_words(ws, o, size) ==
    IF size >= 0 /\ o + size <= Len(ws)
    THEN [ok |-> TRUE, val |-> SubSeq(ws, o + 1, o + size), o |-> o + size]
    ELSE NoWords

\* a signalling and a quiet NaN as float32 words: 0x7F800001 and 0x7FC00001
SNaN == 2139095041
QNaN == 2143289345

\* the float struct.unpack("<f") yields for a word, named by the word
\* struct.pack("<f") writes for it: the conversion to a Python float makes a
\* signalling NaN quiet and keeps every other value
unpack_float(w) == IF w = SNaN THEN QNaN ELSE w

\* _read_float32() without a size
_read_float(ws, o) ==
    IF o + 1 <= Len(ws) THEN [ok |-> TRUE, val |-> unpack_float(ws[o + 1]), o |-> o + 1]
    ELSE NoWords

\* _read_float32(size)
_read_floats(ws, o, size) ==
    IF size >= 0 /\ o + size <= Len(ws)
    THEN [ok |-> TRUE,
          val |-> [i \in 1..size |-> unpack_float(ws[o + i])],
          o |-> o + size]
    ELSE NoWords

\* size = _read_uint32(); _read_float32(size)
_read_times(ws, o) ==
    LET size == _read_word(ws, o)
    IN  IF size.ok THEN _read_floats(ws, size.o, size.val) ELSE NoWords

\* size = _read_uint32(); _read_uint32(size)
_read_counted(ws, o) ==
    LET size == _read_word(ws, o)
    IN  IF size.ok THEN _read_words(ws, size.o, size.val) ELSE NoWords

\* [self._read_float32(arity) for _ in range(count)]
_read_tuples(ws, o, count, arity) ==
    IF count >= 0 /\ o + count * arity <= Len(ws)
    THEN [ok |-> TRUE,
          val |-> [i \in 1..count |->
                      _read_floats(ws, o + (i - 1) * arity, arity).val],
          o |-> o + count * arity]
    ELSE NoWords

\* the loop of _read_vertextargets: split vtData at its negative entries
RECURSIVE SplitVertexTargets(_, _, _, _, _)
SplitVertexTargets(vtData, i, idx, idxEnd, vertexTargets) ==
    IF i > Len(vtData) THEN vertexTargets
    ELSE IF vtData[i] >= 0
         THEN SplitVertexTargets(vtData, i + 1, idx, idxEnd + 1, vertexTargets)
         ELSE SplitVertexTargets(vtData, i + 1, idxEnd + 1, idxEnd + 1,
                                 Append(vertexTargets, SubSeq(vtData, idx + 1, idxEnd)))

_read_vertextargets(ws, o) ==
    LET vtData == _read_counted(ws, o)
    IN  IF vtData.ok
        THEN [ok |-> TRUE,
              val |-> SplitVertexTargets(vtData.val, 1, 0, 0, <<>>),
              o |-> vtData.o]
        ELSE NoWords

Bit(flags, b) == IF (flags \div (2 ^ b)) % 2 = 1 THEN 1 ELSE 0

Vertices(coords, normals, colors, texcoords) ==
    [coords |-> coords, normals |-> normals, colors |-> colors,
     texcoords |-> texcoords]

_read_vertices(ws, o) ==
    LET vertexFlags == _read_word(ws, o)
        numVerts == _read_word(ws, vertexFlags.o)
        f == IF vertexFlags.val >= 0 THEN vertexFlags.val ELSE 0
        hasCoords == Bit(f, 0)
        hasNormals == Bit(f, 1)
        hasColors == Bit(f, 2)
        hasTexCoords == Bit(f, 3)
        stride == 4 * hasCoords + 3 * hasNormals + 4 * hasColors + 2 * hasTexCoords
        vData == _read_floats(ws, numVerts.o, numVerts.val * stride)
        n == numVerts.val
        at(x, off, len) ==
            SubSeq(vData.val, (x - 1) * stride + off + 1, (x - 1) * stride + off + len)
    IN  IF ~vertexFlags.ok \/ ~numVerts.ok THEN NoWords
        ELSE IF numVerts.val < 0 \/ ~vData.ok THEN NoWords
        ELSE [ok |-> TRUE,
              val |-> Vertices(
                  IF hasCoords = 1 THEN [x \in 1..n |-> at(x, 0, 3)] ELSE <<>>,
                  IF hasNormals = 1
                  THEN [x \in 1..n |-> at(x, 4 * hasCoords, 3)] ELSE <<>>,
                  IF hasColors = 1
                  THEN [x \in 1..n |-> at(x, 4 * hasCoords + 3 * hasNormals, 4)]
                  ELSE <<>>,
                  IF hasTexCoords = 1
                  THEN [x \in 1..n |->
                           at(x, 4 * hasCoords + 3 * hasNormals + 4 * hasColors, 2)]
                  ELSE <<>>),
              o |-> vData.o]

\* keys of xgTexCoordInterpolator (arity 2), xgVertexInterpolator and
\* xgNormalInterpolator (arity 3): numkeys counted lists of tuples
RECURSIVE _read_listkeys(_, _, _, _, _)
_read_listkeys(ws, o, numkeys, arity, keys) ==
    IF numkeys <= 0 THEN [ok |-> TRUE, val |-> keys, o |-> o]
    ELSE LET size == _read_word(ws, o)
             key == _read_tuples(ws, size.o, size.val, arity)
         IN  IF ~size.ok THEN NoWords
             ELSE IF ~key.ok THEN NoWords
             ELSE _read_listkeys(ws, key.o, numkeys - 1, arity, Append(keys, key.val))

\* keys of xgShapeInterpolator: numkeys vertex buffers
RECURSIVE _read_shapekeys(_, _, _, _)
_read_shapekeys(ws, o, numkeys, keys) ==
    IF numkeys <= 0 THEN [ok |-> TRUE, val |-> keys, o |-> o]
    ELSE LET key == _read_vertices(ws, o)
         IN  IF ~key.ok THEN NoWords
             ELSE _read_shapekeys(ws, key.o, numkeys - 1, Append(keys, key.val))

KeysNodeTypes ==
    { "xgVec3Interpolator", "xgQuatInterpolator", "xgTexCoordInterpolator",
      "xgVertexInterpolator", "xgNormalInterpolator", "xgShapeInterpolator" }

\* a keys value, with the shape its reader branch gave it: "tuples" (a list of
\* float tuples), "lists" (a list of lists of float tuples) or "vertices" (a
\* list of Vertices)
Keys(shape, r) == [r EXCEPT !.val = [shape |-> shape, items |-> r.val]]

\* the keys branch of _parse_xgnode: the shape of a key depends on nodetype
_read_keys(nodetype, ws, o) ==
    LET numkeys == _read_word(ws, o)
    IN  IF ~numkeys.ok THEN NoWords
        ELSE CASE nodetype = "xgVec3Interpolator" ->
                    Keys("tuples", _read_tuples(ws, numkeys.o, numkeys.val, 3))
               [] nodetype = "xgQuatInterpolator" ->
                    Keys("tuples", _read_tuples(ws, numkeys.o, numkeys.val, 4))
               [] nodetype = "xgTexCoordInterpolator" ->
                    Keys("lists", _read_listkeys(ws, numkeys.o, numkeys.val, 2, <<>>))
               [] nodetype \in {"xgVertexInterpolator", "xgNormalInterpolator"} ->
                    Keys("lists", _read_listkeys(ws, numkeys.o, numkeys.val, 3, <<>>))
               [] nodetype = "xgShapeInterpolator" ->
                    Keys("vertices", _read_shapekeys(ws, numkeys.o, numkeys.val, <<>>))
               [] OTHER -> NoWords

\* weights: num_weights tuples of 4 floats
_read_weights(ws, o) ==
    LET num_weights == _read_word(ws, o)
    IN  IF num_weights.ok THEN _read_tuples(ws, num_weights.o, num_weights.val, 4)
        ELSE NoWords

\* the value of a word property, by the dispatch of _parse_xgnode
ReadPropertyValue(token, nodetype, ws) ==
    CASE token \in U32Props -> _read_word(ws, 0)
      [] token \in F1Props -> _read_float(ws, 0)
      [] token \in F3Props -> _read_floats(ws, 0, 3)
      [] token \in F4Props -> _read_floats(ws, 0, 4)
      [] token \in U32ListProps -> _read_counted(ws, 0)
      [] token = "times" -> _read_times(ws, 0)
      [] token = "restMatrix" -> _read_floats(ws, 0, 16)
      [] token = "vertexTargets" -> _read_vertextargets(ws, 0)
      [] token = "vertices" -> _read_vertices(ws, 0)
      [] token = "weights" -> _read_weights(ws, 0)
      [] token = "keys" -> _read_keys(nodetype, ws, 0)

(***************************************************************************)
(* xgscenewriter.py: the binary writers, as the words they emit.           *)
(***************************************************************************)
\* groups written with -1 between them and none behind the last
_write_vertextargets_joined(vertextargets) ==
    LET vertextargets_raw ==
            Flatten([i \in 1..Len(vertextargets) |->
                        IF i < Len(vertextargets)
                        THEN Append(vertextargets[i], -1)
                        ELSE vertextargets[i]])
    IN  <<Len(vertextargets_raw)>> \o vertextargets_raw

\* _write_vertextargets: every group followed by -1, behind the raw count
_write_vertextargets(vertextargets) ==
    LET vertextargets_raw ==
            Flatten([i \in 1..Len(vertextargets) |->
                        Append(vertextargets[i], -1)])
    IN  <<Len(vertextargets_raw)>> \o vertextargets_raw

\* whether _write_vertices gets through zip_longest without a None row
VerticesWritable(vertices) ==
    LET num_vertices ==
            Max(Max(Len(vertices.coords), Len(vertices.normals)),
                Max(Len(vertices.colors), Len(vertices.texcoords)))
    IN  \A l \in {vertices.coords, vertices.normals, vertices.colors,
                  vertices.texcoords} : l = <<>> \/ Len(l) = num_vertices

\* coordinates written as they are held, without the 4th value
coords_unpadded(coords) == coords

\* line 283: coords_padded = ((x, y, z, 1.0) for x, y, z in vertices.coords)
coords_padded(coords) == [i \in 1..Len(coords) |-> Append(coords[i], FloatOne)]

_write_vertices(vertices) ==
    LET has_coords == IF vertices.coords # <<>> THEN 1 ELSE 0
        has_normals == IF vertices.normals # <<>> THEN 1 ELSE 0
        has_colors == IF vertices.colors # <<>> THEN 1 ELSE 0
        has_texcoords == IF vertices.texcoords # <<>> THEN 1 ELSE 0
        vertex_flags ==
            has_coords + 2 * has_normals + 4 * has_colors + 8 * has_texcoords
        num_vertices ==
            Max(Max(Len(vertices.coords), Len(vertices.normals)),
                Max(Len(vertices.colors), Len(vertices.texcoords)))
        row(i) ==
            (IF has_coords = 1 THEN coords_padded(vertices.coords)[i] ELSE <<>>)
            \o (IF has_normals = 1 THEN vertices.normals[i] ELSE <<>>)
            \o (IF has_colors = 1 THEN vertices.colors[i] ELSE <<>>)
            \o (IF has_texcoords = 1 THEN vertices.texcoords[i] ELSE <<>>)
    IN  <<vertex_flags, num_vertices>>
            \o Flatten([i \in 1..num_vertices |-> row(i)])

AllEmpty(vertices) ==
    /\ vertices.coords = <<>> /\ vertices.normals = <<>>
    /\ vertices.colors = <<>> /\ vertices.texcoords = <<>>

\* whether the keys branch of _write_xgnodes gets through: pack() takes floats
\* only, chain.from_iterable() iterables only, and _write_vertices a Vertices
KeysWritable(nodetype, propval) ==
    CASE nodetype \in {"xgVec3Interpolator", "xgQuatInterpolator"} ->
            CASE propval.shape = "tuples" -> TRUE
              [] propval.shape = "lists" -> Flatten(propval.items) = <<>>
              [] OTHER -> propval.items = <<>>
      [] nodetype \in {"xgTexCoordInterpolator", "xgVertexInterpolator",
                       "xgNormalInterpolator"} ->
            CASE propval.shape = "tuples" -> propval.items = <<>>
              [] propval.shape = "lists" -> TRUE
              [] OTHER -> \A k \in 1..Len(propval.items) : AllEmpty(propval.items[k])
      [] nodetype = "xgShapeInterpolator" ->
            CASE propval.shape = "vertices" ->
                    \A k \in 1..Len(propval.items) : VerticesWritable(propval.items[k])
              [] OTHER -> propval.items = <<>>
      [] OTHER -> FALSE

\* the keys branch of _write_xgnodes, for keys it gets through
_write_keys(nodetype, propval) ==
    <<Len(propval.items)>> \o
    ( CASE nodetype \in {"xgVec3Interpolator", "xgQuatInterpolator"} ->
              IF propval.shape = "tuples" THEN Flatten(propval.items) ELSE <<>>
        [] nodetype \in {"xgTexCoordInterpolator", "xgVertexInterpolator",
                         "xgNormalInterpolator"} ->
              IF propval.shape = "lists"
              THEN Flatten([i \in 1..Len(propval.items) |->
                              <<Len(propval.items[i])>> \o Flatten(propval.items[i])])
              ELSE [i \in 1..Len(propval.items) |-> 4]
        [] nodetype = "xgShapeInterpolator" ->
              Flatten([i \in 1..Len(propval.items) |->
                          _write_vertices(propval.items[i])])
        [] OTHER -> <<>> )

\* the words written for a word property, by the dispatch of _write_xgnodes
WritePropertyValue(propname, nodetype, propval) ==
    CASE propname \in U32Props \cup F1Props -> <<propval>>
      [] propname \in F3Props \cup F4Props \cup {"restMatrix"} -> propval
      [] propname \in U32ListProps \cup {"times"} -> <<Len(propval)>> \o propval
      [] propname = "vertexTargets" -> _write_vertextargets(propval)
      [] propname = "vertices" -> _write_vertices(propval)
      [] propname = "weights" -> <<Len(propval)>> \o Flatten(propval)
      [] propname = "keys" -> _write_keys(nodetype, propval)

(***************************************************************************)
(* xgscene.py: nodes and the scene.  A node object is its index in         *)
(* scene.nodes; attrs is the node's __dict__ in insertion order, holding   *)
(* the set properties and the input-attribute lists (lists of node         *)
(* objects).  pool is _preadded_nodes and dag is _dag, both in insertion   *)
(* order.                                                                  *)
(***************************************************************************)
EmptyScene == [nodes |-> <<>>, pool |-> <<>>, dag |-> <<>>]

new_xgnode(nodename, nodetype) == [name |-> nodename, type |-> nodetype, attrs |-> <<>>]

PoolNames(scene) == {scene.pool[i].name : i \in 1..Len(scene.pool)}
PoolNodes(scene) == {scene.pool[i].id : i \in 1..Len(scene.pool)}

\* self._preadded_nodes[xgnode.xgnode_name] = xgnode
preadd_node(scene, xgnode) ==
    LET id == Len(scene.nodes) + 1
        entry == [name |-> xgnode.name, id |-> id]
    IN  [scene EXCEPT
            !.nodes = Append(@, xgnode),
            !.pool = IF xgnode.name \in PoolNames(scene)
                     THEN [i \in 1..Len(@) |->
                              IF @[i].name = xgnode.name THEN entry ELSE @[i]]
                     ELSE Append(@, entry)]

\* a lookup that finds every name
HasAnyNode(scene, name) == TRUE

\* get_node's test: name in self._preadded_nodes (LookupError when it is not)
HasNode(scene, name) == name \in PoolNames(scene)

\* the node object get_node returns (0 stands for no object)
get_node(scene, name) ==
    IF name \in PoolNames(scene)
    THEN scene.pool[CHOOSE i \in 1..Len(scene.pool) : scene.pool[i].name = name].id
    ELSE 0

AttrNames(xgnode) == {xgnode.attrs[i].name : i \in 1..Len(xgnode.attrs)}

\* setattr(self, name, value)
SetAttr(xgnode, name, value) ==
    [xgnode EXCEPT
        !.attrs = IF name \in AttrNames(xgnode)
                  THEN [i \in 1..Len(@) |->
                           IF @[i].name = name THEN [name |-> name, val |-> value]
                           ELSE @[i]]
                  ELSE Append(@, [name |-> name, val |-> value])]

GetAttr(xgnode, name) ==
    xgnode.attrs[CHOOSE i \in 1..Len(xgnode.attrs) : xgnode.attrs[i].name = name].val

\* set_property past its check of _valid_property_names
set_property(xgnode, name, value) == SetAttr(xgnode, name, value)

\* append_inputattrib past its check of _valid_input_attributes
append_inputattrib(xgnode, inputtype, input_xgnode) ==
    IF inputtype \in AttrNames(xgnode)
    THEN SetAttr(xgnode, inputtype, Append(GetAttr(xgnode, inputtype), input_xgnode))
    ELSE SetAttr(xgnode, inputtype, <<input_xgnode>>)

IsPropertyAttr(xgnode, a) == a.name \in ValidPropertyNames(xgnode.type)
IsInputAttr(xgnode, a) == a.name \in ValidInputAttributes(xgnode.type)

all_properties(xgnode) ==
    LET keep(a) == IsPropertyAttr(xgnode, a) IN SelectSeq(xgnode.attrs, keep)

all_inputattribs(xgnode) ==
    LET keep(a) == IsInputAttr(xgnode, a) IN SelectSeq(xgnode.attrs, keep)

DagTypes == {"xgDagTransform", "xgDagMesh"}

DagKeys(scene) == {scene.dag[i].key : i \in 1..Len(scene.dag)}

\* self._dag[dagnode].extend(c for c in children if c not in self._dag[dagnode]):
\* the generator looks at the list while the list grows
RECURSIVE ExtendNew(_, _)
ExtendNew(list, children) ==
    IF children = <<>> THEN list
    ELSE IF \E i \in 1..Len(list) : list[i] = Head(children)
         THEN ExtendNew(list, Tail(children))
         ELSE ExtendNew(Append(list, Head(children)), Tail(children))

\* checks that let every node pass
add_dagnode_unchecked(scene, dagnode, children) == "none"

\* the exception add_dagnode raises for (dagnode, *children), or "none"
add_dagnode_error(scene, dagnode, children) ==
    LET all == <<dagnode>> \o children
    IN  IF \E i \in 1..Len(all) : scene.nodes[all[i]].type \notin DagTypes
        THEN "TypeError"
        ELSE IF \E i \in 1..Len(all) : all[i] \notin PoolNodes(scene)
             THEN "ValueError"
             ELSE "none"

\* add_dagnode past its checks
add_dagnode(scene, dagnode, children) ==
    [scene EXCEPT
        !.dag = IF dagnode \in DagKeys(scene)
                THEN [i \in 1..Len(@) |->
                         IF @[i].key = dagnode
                         THEN [@[i] EXCEPT !.children = ExtendNew(@, children)]
                         ELSE @[i]]
                ELSE Append(@, [key |-> dagnode, children |-> children])]

(***************************************************************************)
(* The state of one read, one write and one re-read.                       *)
(*   phase       "read": the reader parses a stream the environment makes  *)
(*               up unit by unit; "write": the writer writes the scene     *)
(*               that was read; "reread": a second reader parses the       *)
(*               written file                                              *)
(*   profile     the family of tokens the environment draws from           *)
(*   budget      how many declarations, bodies, attributes, dag nodes and  *)
(*               dag children the stream has held                          *)
(*   file, idx   the written file and the next unit to read (reread)       *)
(*   pos         self._file.tell()                                         *)
(*   dbg_tokenpos, xgscene   the reader's fields                           *)
(*   pc          where the reader is: "header", "top", "node", "body",     *)
(*               "dag", "dagkey", "dagchild", "returned", "raised"         *)
(*   nodetype, node, dagnode, children   locals of _parse_xgnode and       *)
(*               _parse_dag                                                *)
(*   exc         the exception read_xgscene raised (offset -1 is None)     *)
(*   obs         what the stream held, recorded beside the reader          *)
(*   out, wpc    the units the writer wrote and the writer's next step     *)
(*   wmarks      Len(out) when the writer began each node body and the dag *)
(*   saved       the scene and the observations of the first read          *)
(***************************************************************************)
VARIABLES phase, profile, budget, file, idx, pos, dbg_tokenpos, xgscene, pc,
          nodetype, node, dagnode, children, exc, obs, out, wpc, wmarks, saved,
          animsep, vt, imp

vars ==
    <<phase, profile, budget, file, idx, pos, dbg_tokenpos, xgscene, pc,
      nodetype, node, dagnode, children, exc, obs, out, wpc, wmarks, saved,
      animsep, vt, imp>>

None == -1
NoExc == [type |-> "none", offset |-> None]

NoObs ==
    [magic |-> "", version |-> "", tokens |-> FALSE, declared |-> {},
     ref |-> "none", refpos |-> None,
     cut |-> "none", illegal |-> "none", illegalpos |-> None,
     keyserr |-> FALSE, dagclosed |-> FALSE, mismatch |-> FALSE,
     redeclared |-> FALSE]

(***************************************************************************)
(* The streams the environment makes up.                                   *)
(***************************************************************************)
Profiles == {"material", "dag", "geometry", "anim"}
Names == {"a", "b"}

TypeTokens ==
    CASE profile = "material" -> {"xgMaterial", "xgTexture"}
      [] profile = "dag" -> {"xgDagTransform", "xgDagMesh"}
      [] profile = "geometry" -> {"xgBgGeometry", "xgEnvelope"}
      [] OTHER -> {"xgVec3Interpolator", "xgShapeInterpolator"}

AttrTokens ==
    CASE profile = "material" -> {"blendType", "url", "inputTexture", "colour"}
      [] profile = "dag" -> {"cullFunc", "inputMatrix", "inputTexture", "keys"}
      [] profile = "geometry" -> {"vertices", "vertexTargets", "weights", "url"}
      [] OTHER -> {"keys", "times", "inputTime"}

Ramp(n) == [i \in 1..n |-> i]

\* n float words, the first of them a signalling NaN
NaNRamp(n) == [i \in 1..n |-> IF i = 1 THEN SNaN ELSE i]

GenVertices == {<<f, n>> \o Ramp(n * (4 * Bit(f, 0) + 3 * Bit(f, 1) + 4 * Bit(f, 2) + 2 * Bit(f, 3))) :
                    f \in {9, 6}, n \in 0..MaxArr}

\* the complete payloads of a word property
GenComplete(token, type) ==
    CASE token \in U32Props \cup F1Props -> {<<0>>, <<1>>}
      [] token \in F3Props -> {Ramp(3), NaNRamp(3)}
      [] token \in F4Props -> {Ramp(4), NaNRamp(4)}
      [] token = "restMatrix" -> {Ramp(16)}
      [] token \in U32ListProps -> {<<n>> \o Ramp(n) : n \in 0..MaxArr}
      [] token = "times" -> {<<n>> \o NaNRamp(n) : n \in 0..MaxArr}
      [] token = "vertexTargets" ->
            UNION {{<<n>> \o d : d \in [1..n -> {-1, 0}]} : n \in 0..MaxArr}
      [] token = "vertices" -> GenVertices
      [] token = "weights" -> {<<n>> \o Ramp(4 * n) : n \in 0..MaxArr}
      [] token = "keys" ->
            CASE type = "xgVec3Interpolator" -> {<<n>> \o Ramp(3 * n) : n \in 0..MaxArr}
              [] type = "xgQuatInterpolator" -> {<<n>> \o Ramp(4 * n) : n \in 0..MaxArr}
              [] type = "xgTexCoordInterpolator" ->
                    {<<0>>} \cup {<<1, n>> \o Ramp(2 * n) : n \in 0..MaxArr}
              [] type \in {"xgVertexInterpolator", "xgNormalInterpolator"} ->
                    {<<0>>} \cup {<<1, n>> \o Ramp(3 * n) : n \in 0..MaxArr}
              [] type = "xgShapeInterpolator" ->
                    {<<0>>} \cup {<<1>> \o v : v \in GenVertices}
              [] OTHER -> {<<1>>}

\* the payloads the environment offers: the complete ones, and each of them cut
\* one word short by the end of the stream
GenPayloads(token, type) ==
    GenComplete(token, type)
        \cup {SubSeq(c, 1, Len(c) - 1) : c \in GenComplete(token, type)}

RECURSIVE WordsAt(_, _)
WordsAt(f, i) ==
    IF i > Len(f) THEN <<>>
    ELSE IF f[i].k # "w" THEN <<>>
    ELSE <<f[i].v>> \o WordsAt(f, i + 1)

\* what a read of a Pascal string at unit j may yield: a token, the end of the
\* stream ("eof"), a length byte with too short a payload ("short"), or (in a
\* written file only) bytes that are no Pascal string ("desync").  The
\* environment ends its streams where a top-level token would begin, or inside
\* a Pascal string, or inside a binary field.
Tok(j, alphabet) ==
    IF phase = "reread"
    THEN IF j > Len(file) THEN {[r |-> "eof", s |-> ""]}
         ELSE IF file[j].k = "p" THEN {[r |-> "tok", s |-> file[j].s]}
         ELSE {[r |-> "desync", s |-> ""]}
    ELSE {[r |-> "tok", s |-> a] : a \in alphabet}
            \cup {[r |-> "short", s |-> ""]}
            \cup (IF pc = "top" THEN {[r |-> "eof", s |-> ""]} ELSE {})

\* the words a binary read at unit j may find
WordRuns(j, token, type) ==
    IF phase = "reread" THEN {WordsAt(file, j)} ELSE GenPayloads(token, type)

\* the 4 bytes file.read(4) may yield at unit j
Raw4(j, alphabet) ==
    IF phase = "reread"
    THEN IF j > Len(file) THEN {""}
         ELSE IF file[j].k = "raw" THEN {file[j].s} ELSE {"?"}
    ELSE alphabet

IdleReader ==
    /\ file = <<>> /\ idx = 1 /\ pos = 0 /\ dbg_tokenpos = 0
    /\ xgscene = EmptyScene /\ nodetype = "" /\ node = 0 /\ dagnode = 0
    /\ children = <<>> /\ exc = NoExc /\ obs = NoObs
    /\ budget = 0
    /\ out = <<>> /\ wpc = "idle" /\ wmarks = <<>> /\ saved = [scene |-> EmptyScene, obs |-> NoObs]

IdleAnimSep == animsep = [pc |-> "off"]
IdleVt == vt = [pc |-> "off"]
IdleImp == imp = [pc |-> "off"]

Init ==
    /\ phase = "read"
    /\ profile \in Profiles
    /\ pc = "header"
    /\ IdleReader
    /\ IdleAnimSep
    /\ IdleVt
    /\ IdleImp

(***************************************************************************)
(* xgscenereader.py: read_xgscene, one action per step of the grammar.     *)
(***************************************************************************)
Reading == phase \in {"read", "reread"}

\* the reader has consumed n units and stands at byte newpos
Advance(n, newpos, tokenpos) ==
    /\ idx' = idx + n
    /\ pos' = newpos
    /\ dbg_tokenpos' = tokenpos
    /\ UNCHANGED <<phase, profile, file, out, wpc, wmarks, saved, animsep, vt, imp>>

Raise(type, offset) ==
    /\ pc' = "raised"
    /\ exc' = [type |-> type, offset |-> offset]
    /\ UNCHANGED <<xgscene, nodetype, node, dagnode, children, budget>>

\* a Pascal-string read whose failure is wrapped in XgReadError
TokFailureWrapped(t) == IF t.r = "desync" THEN "Desync" ELSE "XgReadError"

\* the exception of a Pascal-string read that found no token
TokFailure(t) == IF t.r = "desync" THEN "Desync" ELSE "EOFError"

CutOf(t) == IF t.r = "short" THEN "pstr" ELSE obs.cut

After(p, t) == p + 1 + Len(t.s)

\* a check of the magic alone
MagicError(magic, version) ==
    IF magic # "XGBv" THEN "XgInvalidFileError" ELSE "none"

\* lines 59-64: the exception the magic and the version lead to
HeaderError(magic, version) ==
    IF magic # "XGBv" \/ version # "1.00" THEN "XgInvalidFileError" ELSE "none"

\* lines 59-64: the magic and the version
ReadHeader ==
    /\ Reading /\ pc = "header"
    /\ \E magic \in Raw4(idx, {"XGBv", "XGBx", "XG"}),
          version \in Raw4(idx + 1, {"1.00", "1.01", ""}) :
        /\ obs' = [obs EXCEPT !.magic = magic, !.version = version]
        /\ IF HeaderError(magic, version) # "none"
           THEN /\ Raise(HeaderError(magic, version), None)
                /\ IF magic # "XGBv"
                   THEN Advance(1, pos + Len(magic), dbg_tokenpos)
                   ELSE Advance(2, pos + 4 + Len(version), dbg_tokenpos)
           ELSE /\ pc' = "top"
                /\ Advance(2, pos + 8, dbg_tokenpos)
                /\ UNCHANGED <<xgscene, nodetype, node, dagnode, children, exc,
                               budget>>

\* lines 70-82: the top-level token
ReadTopToken ==
    /\ Reading /\ pc = "top"
    /\ \E token \in Tok(idx, TypeTokens \cup {"", "dag", "xgBogus"}) :
        /\ Advance(1, After(pos, token), pos)
        /\ IF token.r # "tok"
           THEN /\ Raise(TokFailure(token), None)
                /\ obs' = [obs EXCEPT !.cut = CutOf(token)]
           ELSE /\ obs' = [obs EXCEPT !.tokens = TRUE]
                /\ exc' = exc
                /\ UNCHANGED <<xgscene, node, dagnode, children, budget>>
                /\ IF token.s = ""
                   THEN pc' = "returned" /\ nodetype' = nodetype
                   ELSE IF token.s = "dag"
                   THEN pc' = "dag" /\ nodetype' = nodetype
                   ELSE pc' = "node" /\ nodetype' = token.s

\* the type of the node the pool holds under name ("" when it holds none)
DeclaredType(scene, name) ==
    IF name \in PoolNames(scene) THEN scene.nodes[get_node(scene, name)].type ELSE ""

\* the separators the environment offers behind a node name
Separators == (IF budget < MaxItems THEN {";", "{"} ELSE {}) \cup {"x"}

\* lines 94-110 and 277-280 of _parse_xgnode: the name and ";" or "{"
ParseXgNodeHead ==
    /\ Reading /\ pc = "node"
    /\ \E nodename \in Tok(idx, Names) :
       \E token \in Tok(idx + 1, Separators) :
        LET dbg_namepos == dbg_tokenpos
            namepos == pos
            tokenpos == After(pos, nodename)
        IN  IF nodename.r # "tok"
            THEN /\ Raise(TokFailure(nodename), None)
                 /\ Advance(1, pos, namepos)
                 /\ obs' = [obs EXCEPT !.cut = CutOf(nodename)]
            ELSE IF token.r # "tok"
            THEN /\ Raise(TokFailure(token), None)
                 /\ Advance(2, tokenpos, tokenpos)
                 /\ obs' = [obs EXCEPT !.cut = CutOf(token)]
            ELSE /\ Advance(2, After(tokenpos, token), tokenpos)
                 /\ IF token.s = ";"
                    THEN /\ obs' = [obs EXCEPT !.declared = @ \cup {nodename.s},
                                               !.redeclared =
                                                   @ \/ nodename.s \in obs.declared]
                         /\ IF nodetype \in NodeClasses
                            THEN /\ xgscene' = preadd_node(xgscene,
                                                   new_xgnode(nodename.s, nodetype))
                                 /\ pc' = "top"
                                 /\ budget' = budget + 1
                                 /\ UNCHANGED <<nodetype, node, dagnode, children,
                                                exc>>
                            ELSE Raise("XgSceneError", None)
                    ELSE IF token.s = "{"
                    THEN /\ obs' = IF nodename.s \in obs.declared
                                   THEN [obs EXCEPT !.mismatch =
                                            @ \/ DeclaredType(xgscene, nodename.s)
                                                    # nodetype]
                                   ELSE [obs EXCEPT !.ref = "body", !.refpos = namepos]
                         /\ IF HasNode(xgscene, nodename.s)
                            THEN /\ node' = get_node(xgscene, nodename.s)
                                 /\ pc' = "body"
                                 /\ budget' = budget + 1
                                 /\ UNCHANGED <<xgscene, nodetype, dagnode, children,
                                                exc>>
                            ELSE Raise("XgReadError", dbg_namepos)
                    ELSE /\ Raise("XgReadError", tokenpos)
                         /\ obs' = obs

\* the property and input-attribute tokens the environment offers in a body
BodyTokens == (IF budget < MaxItems THEN AttrTokens ELSE {}) \cup {"}"}

\* what _parse_xgnode does with a property whose value is made of words:
\* lines 116-175 and 181-236
WordProperty(token, tokenpos) ==
    \E ws \in WordRuns(idx + 1, token, nodetype) :
        LET val == ReadPropertyValue(token, nodetype, ws)
            numkeys == _read_word(ws, 0)
        IN  /\ phase = "read" /\ val.ok => val.o = Len(ws)
            /\ IF token = "keys" /\ numkeys.ok /\ nodetype \notin KeysNodeTypes
               THEN /\ Raise("XgReadError", tokenpos)
                    /\ Advance(2, After(pos, [s |-> token]) + 4, tokenpos)
                    /\ obs' = [obs EXCEPT !.keyserr = TRUE]
               ELSE IF ~val.ok
               THEN /\ Raise("struct.error", None)
                    /\ Advance(1 + Len(ws), After(pos, [s |-> token]) + 4 * Len(ws),
                               tokenpos)
                    /\ obs' = [obs EXCEPT !.cut = "words"]
               ELSE /\ Advance(1 + val.o, After(pos, [s |-> token]) + 4 * val.o,
                               tokenpos)
                    /\ IF token \in ValidPropertyNames(xgscene.nodes[node].type)
                       THEN /\ xgscene' = [xgscene EXCEPT !.nodes[node] =
                                              set_property(@, token, val.val)]
                            /\ pc' = "body"
                            /\ budget' = budget + 1
                            /\ UNCHANGED <<nodetype, node, dagnode, children, exc, obs>>
                       ELSE /\ Raise("AttributeError", None)
                            /\ obs' = [obs EXCEPT !.illegal = token,
                                                  !.illegalpos = tokenpos]

\* lines 177-179: url
UrlProperty(token, tokenpos) ==
    \E url \in Tok(idx + 1, {"t.png"}) :
        LET urlpos == After(pos, [s |-> token])
        IN  IF url.r # "tok"
            THEN /\ Raise(TokFailure(url), None)
                 /\ Advance(2, urlpos, urlpos)
                 /\ obs' = [obs EXCEPT !.cut = CutOf(url)]
            ELSE /\ Advance(2, After(urlpos, url), urlpos)
                 /\ IF token \in ValidPropertyNames(xgscene.nodes[node].type)
                    THEN /\ xgscene' = [xgscene EXCEPT !.nodes[node] =
                                           set_property(@, token, url.s)]
                         /\ pc' = "body"
                         /\ budget' = budget + 1
                         /\ UNCHANGED <<nodetype, node, dagnode, children, exc, obs>>
                    ELSE /\ Raise("AttributeError", None)
                         /\ obs' = [obs EXCEPT !.illegal = token,
                                               !.illegalpos = tokenpos]

\* the observations, with a reference to name at byte p noted when the stream
\* has not declared name before it
Unresolved(name, ctx, p) ==
    IF name \in obs.declared THEN obs ELSE [obs EXCEPT !.ref = ctx, !.refpos = p]

\* lines 238-262: an input attribute
InputAttribute(token, tokenpos) ==
    \E inputnodename \in Tok(idx + 1, Names) :
    \E outputAttrib \in Tok(idx + 2, {inputattrib_to_outputattrib(token)}) :
        LET inputpos == After(pos, [s |-> token])
            outputpos == After(inputpos, inputnodename)
        IN  IF inputnodename.r # "tok"
            THEN /\ Raise(TokFailure(inputnodename), None)
                 /\ Advance(2, inputpos, inputpos)
                 /\ obs' = [obs EXCEPT !.cut = CutOf(inputnodename)]
            ELSE IF ~HasNode(xgscene, inputnodename.s)
            THEN /\ Raise("XgReadError", inputpos)
                 /\ Advance(2, outputpos, inputpos)
                 /\ obs' = Unresolved(inputnodename.s, "input", inputpos)
            ELSE IF outputAttrib.r # "tok"
            THEN /\ Raise(TokFailure(outputAttrib), None)
                 /\ Advance(3, outputpos, outputpos)
                 /\ obs' = [Unresolved(inputnodename.s, "input", inputpos)
                               EXCEPT !.cut = CutOf(outputAttrib)]
            ELSE /\ Advance(3, After(outputpos, outputAttrib), outputpos)
                 /\ obs' = [Unresolved(inputnodename.s, "input", inputpos)
                               EXCEPT !.illegal =
                                   IF token \in ValidInputAttributes(xgscene.nodes[node].type)
                                   THEN @ ELSE token,
                                      !.illegalpos =
                                   IF token \in ValidInputAttributes(xgscene.nodes[node].type)
                                   THEN @ ELSE tokenpos]
                 /\ IF token \in ValidInputAttributes(xgscene.nodes[node].type)
                    THEN /\ xgscene' = [xgscene EXCEPT !.nodes[node] =
                                           append_inputattrib(@, token,
                                               get_node(xgscene, inputnodename.s))]
                         /\ pc' = "body"
                         /\ budget' = budget + 1
                         /\ UNCHANGED <<nodetype, node, dagnode, children, exc>>
                    ELSE Raise("AttributeError", None)

\* lines 111-275 of _parse_xgnode: one property or input attribute, or "}"
ParseXgNodeAttr ==
    /\ Reading /\ pc = "body"
    /\ \E token \in Tok(idx, BodyTokens) :
        IF token.r # "tok"
        THEN /\ Raise(TokFailure(token), None)
             /\ Advance(1, pos, pos)
             /\ obs' = [obs EXCEPT !.cut = CutOf(token)]
        ELSE IF token.s = "}"
        THEN /\ pc' = "top"
             /\ Advance(1, After(pos, token), pos)
             /\ UNCHANGED <<xgscene, nodetype, node, dagnode, children, exc, obs,
                            budget>>
        ELSE IF token.s \in WordProps THEN WordProperty(token.s, pos)
        ELSE IF token.s = "url" THEN UrlProperty(token.s, pos)
        ELSE IF token.s \in InputAttribNames THEN InputAttribute(token.s, pos)
        ELSE /\ Raise("XgReadError", pos)
             /\ Advance(1, After(pos, token), pos)
             /\ obs' = obs

\* lines 285-289 of _parse_dag: the "{" behind "dag"
ParseDagOpen ==
    /\ Reading /\ pc = "dag"
    /\ \E token \in Tok(idx, {"{", "x"}) :
        /\ Advance(1, After(pos, token), pos)
        /\ IF token.r # "tok"
           THEN /\ Raise(TokFailure(token), None)
                /\ obs' = [obs EXCEPT !.cut = CutOf(token)]
           ELSE IF token.s # "{"
           THEN Raise("XgReadError", pos) /\ obs' = obs
           ELSE /\ pc' = "dagkey"
                /\ UNCHANGED <<xgscene, nodetype, node, dagnode, children, exc, obs,
                               budget>>

\* lines 290-303 and 318: a dag node and its "[", or the "}" that ends the dag
ParseDagKey ==
    /\ Reading /\ pc = "dagkey"
    /\ \E token \in Tok(idx, (IF budget < MaxItems THEN Names ELSE {})
                                \cup {"}"}) :
       \E bracket \in Tok(idx + 1, {"[", "x"}) :
        LET bracketpos == After(pos, token)
        IN  IF token.r # "tok"
            THEN /\ Raise(TokFailure(token), None)
                 /\ Advance(1, pos, pos)
                 /\ obs' = [obs EXCEPT !.cut = CutOf(token)]
            ELSE IF token.s = "}"
            THEN /\ pc' = "returned"
                 /\ Advance(1, bracketpos, pos)
                 /\ obs' = [obs EXCEPT !.dagclosed = TRUE]
                 /\ UNCHANGED <<xgscene, nodetype, node, dagnode, children, exc,
                                budget>>
            ELSE IF ~HasNode(xgscene, token.s)
            THEN /\ Raise("XgReadError", pos)
                 /\ Advance(1, bracketpos, pos)
                 /\ obs' = Unresolved(token.s, "dagkey", pos)
            ELSE IF bracket.r # "tok"
            THEN /\ Raise(TokFailure(bracket), None)
                 /\ Advance(2, bracketpos, bracketpos)
                 /\ obs' = [Unresolved(token.s, "dagkey", pos)
                               EXCEPT !.cut = CutOf(bracket)]
            ELSE /\ Advance(2, After(bracketpos, bracket), bracketpos)
                 /\ obs' = Unresolved(token.s, "dagkey", pos)
                 /\ IF bracket.s # "["
                    THEN Raise("XgReadError", bracketpos)
                    ELSE /\ dagnode' = get_node(xgscene, token.s)
                         /\ children' = <<>>
                         /\ pc' = "dagchild"
                         /\ budget' = budget + 1
                         /\ UNCHANGED <<xgscene, nodetype, node, exc>>

\* lines 304-314: a child of the dag node, or the "]" that ends its children
ParseDagChild ==
    /\ Reading /\ pc = "dagchild"
    /\ \E token \in Tok(idx, (IF budget < MaxItems THEN Names ELSE {})
                                \cup {"]"}) :
        /\ Advance(1, After(pos, token), pos)
        /\ IF token.r # "tok"
           THEN /\ Raise(TokFailure(token), None)
                /\ obs' = [obs EXCEPT !.cut = CutOf(token)]
           ELSE IF token.s = "]"
           THEN /\ obs' = obs
                /\ IF add_dagnode_error(xgscene, dagnode, children) # "none"
                   THEN Raise(add_dagnode_error(xgscene, dagnode, children), None)
                   ELSE /\ xgscene' = add_dagnode(xgscene, dagnode, children)
                        /\ pc' = "dagkey"
                        /\ UNCHANGED <<nodetype, node, dagnode, children, exc, budget>>
           ELSE /\ obs' = Unresolved(token.s, "dagchild", pos)
                /\ IF ~HasNode(xgscene, token.s)
                   THEN Raise("XgReadError", pos)
                   ELSE /\ children' = Append(children, get_node(xgscene, token.s))
                        /\ budget' = budget + 1
                        /\ UNCHANGED <<xgscene, pc, nodetype, node, dagnode, exc>>

(***************************************************************************)
(* xgscenewriter.py: write_xgscene, one action per method it calls.        *)
(***************************************************************************)
PoolOrder(scene) == [i \in 1..Len(scene.pool) |-> scene.nodes[scene.pool[i].id]]

_write_header == <<Raw("XGBv"), Raw("1.00")>>

DeclarationUnits(xgnode) == <<P(xgnode.type), P(xgnode.name), P(";")>>

_write_xgnode_declarations(scene) ==
    Flatten([i \in 1..Len(scene.pool) |-> DeclarationUnits(PoolOrder(scene)[i])])

PropertyUnits(xgnode, a) ==
    <<P(a.name)>> \o
    (IF a.name = "url" THEN <<P(a.val)>>
     ELSE Words(WritePropertyValue(a.name, xgnode.type, a.val)))

InputUnits(scene, a) ==
    Flatten([i \in 1..Len(a.val) |->
                <<P(a.name), P(scene.nodes[a.val[i]].name),
                  P(inputattrib_to_outputattrib(a.name))>>])

\* a node body written with its input edges ahead of its properties
NodeUnitsInputsFirst(scene, xgnode) ==
    <<P(xgnode.type), P(xgnode.name), P("{")>>
        \o Flatten([i \in 1..Len(all_inputattribs(xgnode)) |->
                       InputUnits(scene, all_inputattribs(xgnode)[i])])
        \o Flatten([i \in 1..Len(all_properties(xgnode)) |->
                       PropertyUnits(xgnode, all_properties(xgnode)[i])])
        \o <<P("}")>>

\* one node of _write_xgnodes
NodeUnits(scene, xgnode) ==
    <<P(xgnode.type), P(xgnode.name), P("{")>>
        \o Flatten([i \in 1..Len(all_properties(xgnode)) |->
                       PropertyUnits(xgnode, all_properties(xgnode)[i])])
        \o Flatten([i \in 1..Len(all_inputattribs(xgnode)) |->
                       InputUnits(scene, all_inputattribs(xgnode)[i])])
        \o <<P("}")>>

_write_xgnodes(scene) ==
    Flatten([i \in 1..Len(scene.pool) |-> NodeUnits(scene, PoolOrder(scene)[i])])

\* where each node's units begin in what _write_xgnodes writes behind base units
RECURSIVE NodeStarts(_, _, _)
NodeStarts(scene, i, base) ==
    IF i > Len(scene.pool) THEN <<base>>
    ELSE <<base>> \o NodeStarts(scene, i + 1,
                                base + Len(NodeUnits(scene, PoolOrder(scene)[i])))

\* a node with a property value that makes _write_xgnodes raise
Unwritable(xgnode) ==
    \E i \in 1..Len(all_properties(xgnode)) :
        LET a == all_properties(xgnode)[i]
        IN  \/ a.name = "vertices" /\ ~VerticesWritable(a.val)
            \/ a.name = "keys" /\ ~KeysWritable(xgnode.type, a.val)

_write_dagsetup(scene) ==
    <<P("dag"), P("{")>>
        \o Flatten([i \in 1..Len(scene.dag) |->
                <<P(scene.nodes[scene.dag[i].key].name), P("[")>>
                    \o [c \in 1..Len(scene.dag[i].children) |->
                           P(scene.nodes[scene.dag[i].children[c]].name)]
                    \o <<P("]")>>])
        \o <<P("}")>>

WriterStep(units, next) ==
    /\ out' = out \o units
    /\ wpc' = next
    /\ UNCHANGED <<profile, budget, file, idx, pos, dbg_tokenpos, xgscene, pc,
                   nodetype, node, dagnode, children, exc, obs, saved, animsep, vt, imp>>

\* write_xgscene is called with the scene that read_xgscene returned
WriteHeader ==
    /\ phase = "read" /\ pc = "returned"
    /\ phase' = "write"
    /\ wmarks' = wmarks
    /\ WriterStep(_write_header, "declarations")

WriteXgNodeDeclarations ==
    /\ phase = "write" /\ wpc = "declarations"
    /\ UNCHANGED <<phase, wmarks>>
    /\ WriterStep(_write_xgnode_declarations(xgscene), "nodes")

WriteXgNodes ==
    /\ phase = "write" /\ wpc = "nodes"
    /\ phase' = phase
    /\ IF \E i \in 1..Len(xgscene.pool) : Unwritable(PoolOrder(xgscene)[i])
       THEN wmarks' = wmarks /\ WriterStep(<<>>, "raised")
       ELSE /\ wmarks' = NodeStarts(xgscene, 1, Len(out))
            /\ WriterStep(_write_xgnodes(xgscene), "dag")

WriteDagSetup ==
    /\ phase = "write" /\ wpc = "dag"
    /\ UNCHANGED <<phase, wmarks>>
    /\ WriterStep(_write_dagsetup(xgscene), "closed")

\* a new XgSceneReader on the written file
Reread ==
    /\ phase = "write" /\ wpc = "closed"
    /\ phase' = "reread"
    /\ file' = out /\ idx' = 1 /\ pos' = 0 /\ dbg_tokenpos' = 0
    /\ xgscene' = EmptyScene /\ pc' = "header"
    /\ nodetype' = "" /\ node' = 0 /\ dagnode' = 0 /\ children' = <<>>
    /\ exc' = NoExc /\ obs' = NoObs
    /\ saved' = [scene |-> xgscene, obs |-> obs]
    /\ UNCHANGED <<profile, budget, out, wpc, wmarks, animsep, vt, imp>>

Next ==
    \/ ReadHeader
    \/ ReadTopToken
    \/ ParseXgNodeHead
    \/ ParseXgNodeAttr
    \/ ParseDagOpen
    \/ ParseDagKey
    \/ ParseDagChild
    \/ WriteHeader
    \/ WriteXgNodeDeclarations
    \/ WriteXgNodes
    \/ WriteDagSetup
    \/ Reread

Spec == Init /\ [][Next]_vars

(***************************************************************************)
(* Properties of the reader and the writer, checked under Spec.            *)
(***************************************************************************)
\* a node as the scene's user sees it: name and type
TargetView(scene, id) == [name |-> scene.nodes[id].name, type |-> scene.nodes[id].type]

\* the input edges of a node, one record per edge, in the order the node holds
\* them
EdgeList(xgnode) ==
    Flatten([i \in 1..Len(all_inputattribs(xgnode)) |->
                [j \in 1..Len(all_inputattribs(xgnode)[i].val) |->
                    [edge |-> all_inputattribs(xgnode)[i].name,
                     ref |-> all_inputattribs(xgnode)[i].val[j]]]])

NodeView(scene, xgnode) ==
    [name |-> xgnode.name, type |-> xgnode.type,
     properties |-> all_properties(xgnode),
     inputs |-> [j \in 1..Len(EdgeList(xgnode)) |->
                    [edge |-> EdgeList(xgnode)[j].edge,
                     ref |-> TargetView(scene, EdgeList(xgnode)[j].ref)]]]

\* the pool in order, the input edges and the dag adjacency of a scene
SceneView(scene) ==
    [pool |-> [i \in 1..Len(scene.pool) |-> NodeView(scene, PoolOrder(scene)[i])],
     dag |-> [i \in 1..Len(scene.dag) |->
                [key |-> TargetView(scene, scene.dag[i].key),
                 children |-> [c \in 1..Len(scene.dag[i].children) |->
                                  TargetView(scene, scene.dag[i].children[c])]]]]

\* the first read was of a valid stream: no name was declared twice and every
\* body was headed by the type its node was declared with
ValidStream(o) == ~o.mismatch /\ ~o.redeclared

DeclareBeforeUse ==
    Reading /\ obs.ref # "none" => pc = "raised" /\ exc.type = "XgReadError"

DeclareBeforeUseWitness ==
    /\ phase = "read" /\ obs.ref = "input" /\ pc = "raised"
    /\ exc.type = "XgReadError" /\ xgscene.pool # <<>>

\* the first eight bytes are not the magic XGBv and the version 1.00
BadHeader == obs.magic # "XGBv" \/ obs.version # "1.00"

\* C3: a stream whose first eight bytes are not XGBv and 1.00 is rejected with
\* XgInvalidFileError before any token is parsed.
InvalidHeaderRejected ==
    Reading /\ pc # "header" /\ BadHeader =>
        /\ pc = "raised" /\ exc.type = "XgInvalidFileError"
        /\ ~obs.tokens /\ xgscene = EmptyScene /\ pos <= 8

InvalidHeaderWitness ==
    /\ phase = "read" /\ pc = "raised" /\ obs.magic = "XGBv" /\ obs.version = "1.01"
    /\ exc.type = "XgInvalidFileError"

\* C4 as the specification states it: the XgReadError for an unresolved name
\* carries the byte offset of the Pascal string that holds the name, in each of
\* the four contexts.
UnresolvedOffsetIsNameToken ==
    Reading /\ obs.ref # "none" /\ pc = "raised" =>
        exc.type = "XgReadError" /\ exc.offset = obs.refpos

IllegalTokenRaisesReadError ==
    Reading /\ obs.illegal # "none" =>
        /\ pc = "raised" /\ exc.type = "XgReadError"
        /\ exc.offset = obs.illegalpos

\* C7 as the specification states it: a scene is returned only after a dag
\* block was read up to its closing brace.
SceneOnlyAfterDag ==
    Reading /\ pc = "returned" => obs.dagclosed

\* the strings a dag block holds for the dag of scene
ExpectedDag(scene) ==
    <<"dag", "{">>
        \o Flatten([i \in 1..Len(scene.dag) |->
                <<scene.nodes[scene.dag[i].key].name, "[">>
                    \o [c \in 1..Len(scene.dag[i].children) |->
                           scene.nodes[scene.dag[i].children[c]].name]
                    \o <<"]">>])
        \o <<"}">>

IsKnownToken(u) == u.k = "p" /\ u.s \in KnownTokens

_entrysize == 32

Fin(h) == [k |-> "fin", h |-> h]
NaN == [k |-> "nan", h |-> 0]

\* int(x) for a finite float: rounds towards zero
int(x) == IF x.h >= 0 THEN x.h \div 2 ELSE -((-x.h) \div 2)

\* int(x) raises ValueError or OverflowError
IntRaises(x) == x.k # "fin"

\* AnimSepEntry.__init__ raises for the record
EntryRaises(rec) == IntRaises(rec.f[1]) \/ IntRaises(rec.f[2]) \/ IntRaises(rec.f[4])

\* AnimSepEntry(*_struct_animsep_entry.unpack(entrydata))
AnimSepEntry(rec) ==
    [playback_length |-> int(rec.f[1]),
     keyframe_interval |-> int(rec.f[2]),
     start_keyframe_idx |-> int(rec.f[4]),
     speed_mode |-> rec.u[1]]

\* the record write_animseps packs from entry.allvalues
allvalues(entry) ==
    [f |-> <<Fin(2 * entry.playback_length), Fin(2 * entry.keyframe_interval),
             Fin(2 * 60), Fin(2 * entry.start_keyframe_idx)>>,
     u |-> <<entry.speed_mode, 0, 0, 0>>]

Min(a, b) == IF a <= b THEN a ELSE b

\* a count rounded up to the record that the tail begins
InferredCountCeil(length) == (length + _entrysize - 1) \div _entrysize

\* line 86: num_entries = len(animsepdata) // _entrysize
InferredCount(length) == length \div _entrysize

\* the outcome of read_animseps(file, num_entries) on data and tail
read_animseps(data, tail, start, num_entries) ==
    LET remaining == _entrysize * Len(data) + tail
        length == IF num_entries = None THEN remaining
                  ELSE Min(_entrysize * num_entries, remaining)
        n == IF num_entries = None THEN InferredCount(length) ELSE num_entries
        Short(i) == i * _entrysize > length
        Bad(i) == Short(i) \/ EntryRaises(data[i])
        firstbad == IF \E i \in 1..n : Bad(i)
                    THEN CHOOSE i \in 1..n : Bad(i) /\ \A j \in 1..(i - 1) : ~Bad(j)
                    ELSE 0
    IN  [pos |-> start + length,
         exc |-> IF firstbad = 0 THEN "none"
                 ELSE IF Short(firstbad) THEN "struct.error" ELSE "ValueError",
         ret |-> IF firstbad = 0 THEN [i \in 1..n |-> AnimSepEntry(data[i])]
                 ELSE <<>>]

AnimSepRecords ==
    {[f |-> <<f1, Fin(2), Fin(120), f4>>, u |-> <<1, 0, 0, 0>>] :
        f1 \in {Fin(5), NaN}, f4 \in {Fin(0), Fin(-3)}}

AnimSepFiles == UNION {[1..n -> AnimSepRecords] : n \in 0..MaxRecs}

InitAnimSep ==
    /\ phase = "animsep" /\ profile = "material" /\ pc = "off"
    /\ IdleReader /\ IdleVt /\ IdleImp
    /\ \E data \in AnimSepFiles, tail \in {0, 1, _entrysize - 1}, start \in {0, 4} :
       \E num_entries \in {None} \cup 0..(Len(data) + 1) :
          animsep = [pc |-> "ready", data |-> data, tail |-> tail, start |-> start,
                     num_entries |-> num_entries, pos |-> start, exc |-> "none",
                     ret |-> <<>>, out |-> <<>>]

AnimSepStep ==
    UNCHANGED <<phase, profile, budget, file, idx, pos, dbg_tokenpos, xgscene, pc,
                nodetype, node, dagnode, children, exc, obs, out, wpc, wmarks, saved,
                vt, imp>>

\* read_animseps(file, num_entries)
ReadAnimSeps ==
    /\ phase = "animsep" /\ animsep.pc = "ready"
    /\ LET r == read_animseps(animsep.data, animsep.tail, animsep.start,
                              animsep.num_entries)
       IN  animsep' = [animsep EXCEPT
                          !.pc = IF r.exc = "none" THEN "done" ELSE "raised",
                          !.pos = r.pos, !.exc = r.exc, !.ret = r.ret]
    /\ AnimSepStep

\* write_animseps(file, animsep) with the entries that were read
WriteAnimSeps ==
    /\ phase = "animsep" /\ animsep.pc = "done"
    /\ animsep' = [animsep EXCEPT
                      !.pc = "written",
                      !.out = [i \in 1..Len(animsep.ret) |-> allvalues(animsep.ret[i])]]
    /\ AnimSepStep

\* read_animseps on the file that was written, without a count
ReadWritten ==
    /\ phase = "animsep" /\ animsep.pc = "written"
    /\ animsep' = [pc |-> "ready", data |-> animsep.out, tail |-> 0, start |-> 0,
                   num_entries |-> None, pos |-> 0, exc |-> "none", ret |-> <<>>,
                   out |-> <<>>]
    /\ AnimSepStep

NextAnimSep ==
    \/ ReadAnimSeps
    \/ WriteAnimSeps
    \/ ReadWritten

SpecAnimSep == InitAnimSep /\ [][NextAnimSep]_vars

\* the read is over
AnimSepRead == phase = "animsep" /\ animsep.pc \in {"done", "raised"}

\* the first n records hold finite floats where an entry takes an int
FiniteRecords(n) ==
    \A i \in 1..Min(n, Len(animsep.data)) : ~EntryRaises(animsep.data[i])

\* the read returned the first n records in the order of the stream
ReturnedFirst(n) ==
    /\ animsep.pc = "done" /\ Len(animsep.ret) = n
    /\ \A i \in 1..n : animsep.ret[i] = AnimSepEntry(animsep.data[i])

\* C9 as the specification states it: on a stream of N complete records the
\* read without a count returns N entries in stream order, and the read with a
\* count k <= N returns k entries and leaves the stream 32 * k bytes past the
\* start.
CountInferenceAnyRecords ==
    AnimSepRead =>
        /\ animsep.num_entries = None => ReturnedFirst(Len(animsep.data))
        /\ animsep.num_entries # None /\ animsep.num_entries <= Len(animsep.data) =>
              /\ ReturnedFirst(animsep.num_entries)
              /\ animsep.pos = animsep.start + 32 * animsep.num_entries

\* C9: on a stream of N complete records and fewer than 32 more bytes, whose
\* records hold finite floats, the read without a count returns N entries (the
\* remaining length divided by 32, rounded down) in stream order and leaves the
\* stream at its end; the read with a count k <= N returns the first k entries
\* and leaves the stream 32 * k bytes past the start.
CountInference ==
    AnimSepRead =>
        /\ animsep.num_entries = None /\ FiniteRecords(Len(animsep.data)) =>
              /\ ReturnedFirst(Len(animsep.data))
              /\ Len(animsep.ret) = (32 * Len(animsep.data) + animsep.tail) \div 32
              /\ animsep.pos = animsep.start + 32 * Len(animsep.data) + animsep.tail
        /\ ( /\ animsep.num_entries # None
             /\ animsep.num_entries <= Len(animsep.data)
             /\ FiniteRecords(animsep.num_entries) ) =>
              /\ ReturnedFirst(animsep.num_entries)
              /\ animsep.pos = animsep.start + 32 * animsep.num_entries

CountInferenceWitness ==
    /\ phase = "animsep" /\ animsep.pc = "done"
    /\ Len(animsep.data) = 3 /\ animsep.num_entries = 2 /\ animsep.tail > 0
    /\ animsep.start = 4 /\ animsep.pos = 68 /\ Len(animsep.ret) = 2
    /\ animsep.ret[1] # animsep.ret[2]

(***************************************************************************)
(* Vertex targets on their own: an int32 array is decoded, the groups are  *)
(* written and the written array is decoded again.                         *)
(***************************************************************************)
VTValues == {-2, -1, 0, 2, 5}

VTArrays == UNION {[1..n -> VTValues] : n \in 0..MaxVT}

InitVT ==
    /\ phase = "vt" /\ profile = "geometry" /\ pc = "off"
    /\ IdleReader /\ IdleAnimSep /\ IdleImp
    /\ \E raw \in VTArrays :
          vt = [pc |-> "ready", raw |-> raw, groups |-> <<>>, words |-> <<>>,
                again |-> <<>>]

VTStep ==
    UNCHANGED <<phase, profile, budget, file, idx, pos, dbg_tokenpos, xgscene, pc,
                nodetype, node, dagnode, children, exc, obs, out, wpc, wmarks, saved,
                animsep, imp>>

\* _read_vertextargets on the count and the array
DecodeVT ==
    /\ phase = "vt" /\ vt.pc = "ready"
    /\ vt' = [vt EXCEPT !.pc = "decoded",
                        !.groups = _read_vertextargets(<<Len(vt.raw)>> \o vt.raw, 0).val]
    /\ VTStep

\* _write_vertextargets on the groups
EncodeVT ==
    /\ phase = "vt" /\ vt.pc = "decoded"
    /\ vt' = [vt EXCEPT !.pc = "encoded", !.words = _write_vertextargets(vt.groups)]
    /\ VTStep

\* _read_vertextargets on what was written
RedecodeVT ==
    /\ phase = "vt" /\ vt.pc = "encoded"
    /\ vt' = [vt EXCEPT !.pc = "redecoded",
                        !.again = _read_vertextargets(vt.words, 0).val]
    /\ VTStep

NextVT ==
    \/ DecodeVT
    \/ EncodeVT
    \/ RedecodeVT

SpecVT == InitVT /\ [][NextVT]_vars

\* every group of the array is made of non-negative indices and ends with -1
Terminated(raw) ==
    /\ \A i \in 1..Len(raw) : raw[i] >= -1
    /\ raw # <<>> => raw[Len(raw)] = -1

KICKSEP == 4
KICKGROUP == 5

\* every other subsystem stands still while the importer steps
ImpStep ==
    UNCHANGED <<phase, profile, budget, file, idx, pos, dbg_tokenpos, xgscene, pc,
                nodetype, node, dagnode, children, exc, obs, out, wpc, wmarks, saved,
                animsep, vt>>

\* s[a:b] of Python for a >= 0: a negative b counts from the end
PySlice(s, a, b) ==
    LET e == IF b < 0 THEN Max(b + Len(s), 0) ELSE Min(b, Len(s))
    IN  IF a >= e THEN <<>> ELSE SubSeq(s, a + 1, e)

\* tuple(range(a, b))
PyRange(a, b) == [i \in 1..Max(b - a, 0) |-> a + i - 1]

TriValues == -1..3

TriPrimTypes == {KICKSEP, KICKGROUP, 3}

TriArrays == UNION {[1..n -> TriValues] : n \in 0..MaxTri}

MaxPrims == MaxTri + 1

InitPrims ==
    /\ phase = "prims" /\ profile = "geometry" /\ pc = "off"
    /\ IdleReader /\ IdleAnimSep /\ IdleVt
    /\ \E tridata \in TriArrays, primtype \in TriPrimTypes :
          imp = [pc |-> "call", tridata |-> tridata, primtype |-> primtype,
                 prims |-> <<>>, tridata_offset |-> 0, vertex_index |-> 0, k |-> 0,
                 exc |-> "none"]

\* the slice one pass of the KICKSEP loop appends
KickSepSliceFromCount(tridata, tridata_offset, prim_size) ==
    PySlice(tridata, tridata_offset - 1, tridata_offset + prim_size)

KickSepSlice(tridata, tridata_offset, prim_size) ==
    PySlice(tridata, tridata_offset, tridata_offset + prim_size)

\* the vertex index the KICKGROUP loop goes on from
KickGroupStay(vertex_index, num_verts) == vertex_index + Max(num_verts - 1, 0)

KickGroupAdvance(vertex_index, num_verts) == vertex_index + num_verts

\* tridata_to_prims up to the choice of the loop
TridataToPrimsEnter ==
    /\ phase = "prims" /\ imp.pc = "call"
    /\ imp' = IF imp.tridata = <<>> THEN [imp EXCEPT !.pc = "returned"]
              ELSE IF imp.primtype = KICKSEP
                   THEN [imp EXCEPT !.pc = "kicksep", !.tridata_offset = 0]
              ELSE IF imp.primtype = KICKGROUP
                   THEN [imp EXCEPT !.pc = "kickgroup",
                                    !.vertex_index = imp.tridata[1], !.k = 2]
              ELSE [imp EXCEPT !.pc = "raised", !.exc = "ValueError"]
    /\ ImpStep

\* one pass of `while tridata_offset < len(tridata)`
KickSepIter ==
    /\ phase = "prims" /\ imp.pc = "kicksep"
    /\ imp.tridata_offset < Len(imp.tridata)
    /\ Len(imp.prims) < MaxPrims
    /\ LET prim_size == imp.tridata[imp.tridata_offset + 1]
           offset == imp.tridata_offset + 1
       IN  imp' = [imp EXCEPT
                     !.prims = Append(imp.prims,
                                      KickSepSlice(imp.tridata, offset, prim_size)),
                     !.tridata_offset = offset + prim_size]
    /\ ImpStep

KickSepExit ==
    /\ phase = "prims" /\ imp.pc = "kicksep"
    /\ ~(imp.tridata_offset < Len(imp.tridata))
    /\ imp' = [imp EXCEPT !.pc = "returned"]
    /\ ImpStep

\* one pass of `for num_verts in tridata[1:]`
KickGroupIter ==
    /\ phase = "prims" /\ imp.pc = "kickgroup"
    /\ imp.k <= Len(imp.tridata)
    /\ LET num_verts == imp.tridata[imp.k]
       IN  imp' = [imp EXCEPT
                     !.prims = Append(imp.prims,
                                      PyRange(imp.vertex_index,
                                              imp.vertex_index + num_verts)),
                     !.vertex_index = KickGroupAdvance(imp.vertex_index, num_verts),
                     !.k = imp.k + 1]
    /\ ImpStep

KickGroupExit ==
    /\ phase = "prims" /\ imp.pc = "kickgroup"
    /\ imp.k > Len(imp.tridata)
    /\ imp' = [imp EXCEPT !.pc = "returned"]
    /\ ImpStep

NextPrims ==
    \/ TridataToPrimsEnter
    \/ KickSepIter
    \/ KickSepExit
    \/ KickGroupIter
    \/ KickGroupExit

SpecPrims == InitPrims /\ [][NextPrims]_vars

\* the loops are sequential code: a pass that can run does run
SpecPrimsFair == SpecPrims /\ WF_vars(NextPrims)

\* the array is a sequence of whole records (n, i1..in)
RECURSIVE MadeOfRecords(_)
MadeOfRecords(t) ==
    \/ t = <<>>
    \/ /\ t[1] >= 0 /\ t[1] < Len(t)
       /\ MadeOfRecords(SubSeq(t, t[1] + 2, Len(t)))

NonNegative(t) == \A i \in 1..Len(t) : t[i] >= 0

\* the prims written back as records
AsRecords(prims) == Flatten([j \in 1..Len(prims) |-> <<Len(prims[j])>> \o prims[j]])

KickSepCall == phase = "prims" /\ imp.primtype = KICKSEP

KickSepRecords ==
    KickSepCall /\ imp.pc \in {"kicksep", "returned"} /\ MadeOfRecords(imp.tridata) =>
        /\ AsRecords(imp.prims) = SubSeq(imp.tridata, 1, imp.tridata_offset)
        /\ imp.pc = "returned" => imp.tridata_offset = Len(imp.tridata)

\* C11: with KICKSEP an array made of records (n, i1..in) is returned as one
\* prim per record in input order, each prim holding its record's n indices, so
\* that every element is used once, as a count or as an index of one prim; and
\* the call returns for every array of non-negative integers.
KickSepDecoding ==
    /\ []KickSepRecords
    /\ [](KickSepCall /\ NonNegative(imp.tridata) => <>(imp.pc = "returned"))

KickSepWitness ==
    /\ KickSepCall /\ imp.pc = "returned"
    /\ imp.tridata = <<2, 0, 1, 1, 3>>
    /\ imp.prims = << <<0, 1>>, <<3>> >>

KickGroupCall == phase = "prims" /\ imp.primtype = KICKGROUP

\* s, s + 1, .. as far as the prims go
Consecutive(s, prims) == Flatten(prims) = [i \in 1..Len(Flatten(prims)) |-> s + i - 1]

\* C12: with KICKGROUP and [s, n1, .., nk] the call returns k prims, prim j
\* being the nj consecutive indices from s + n1 + .. + n(j-1), so that the prims
\* put together are the consecutive integers from s, without gap or overlap.
KickGroupDecoding ==
    ( /\ KickGroupCall /\ imp.pc = "returned" /\ imp.tridata # <<>>
      /\ NonNegative(Tail(imp.tridata)) ) =>
        /\ Len(imp.prims) = Len(imp.tridata) - 1
        /\ \A j \in 1..Len(imp.prims) : Len(imp.prims[j]) = imp.tridata[j + 1]
        /\ Consecutive(imp.tridata[1], imp.prims)

KickGroupWitness ==
    /\ KickGroupCall /\ imp.pc = "returned"
    /\ imp.tridata = <<3, 2, 1>>
    /\ imp.prims = << <<3, 4>>, <<5>> >>

(***************************************************************************)
(* xgimporter.py: XgImporter._init_objs_hierarchy and what it calls.  The  *)
(* importer is given a scene of two transforms, two meshes with their      *)
(* geometries, an envelope with its bone and two matrices; which input     *)
(* edges exist and what the dag holds is drawn in the initial state.  The  *)
(* two meshes share one material, which has no texture.  In imp:           *)
(*   scene       self._xgscene                                             *)
(*   i           the dag entry the loop of _init_objs_hierarchy is at      *)
(*   empty, armature   whether the Empty and the armature object exist     *)
(*   meshobjs    _mappings.xgdagmesh_bpymeshobj, each object with its      *)
(*               parent, parent_type and parent_bone                       *)
(*   created     the mesh nodes objects were created for, in order         *)
(*   tbones, bbones, mbones   _mappings.xgdagtransform_bpybonename,        *)
(*               xgbone_bpybonename and xgbgmatrix_bpybonename             *)
(*   editbones   the armature's edit bones with their parents              *)
(*   materials   _mappings.regmatnode_bpymat                               *)
(*   matslots    the materials appended to meshes' material lists          *)
(*   warnings    self.warnings                                             *)
(*   exc         the exception that ended the call, or "none"              *)
(***************************************************************************)
hasattr(xgnode, name) == name \in AttrNames(xgnode)

\* getattr(xgnode, name)[0]
FirstInput(xgnode, name) == GetAttr(xgnode, name)[1]

Link(scene, name, inputtype, target) ==
    [scene EXCEPT !.nodes[get_node(scene, name)] =
                      append_inputattrib(@, inputtype, get_node(scene, target))]

LinkIf(cond, scene, name, inputtype, target) ==
    IF cond THEN Link(scene, name, inputtype, target) ELSE scene

RECURSIVE PreaddAll(_, _)
PreaddAll(scene, xgnodes) ==
    IF xgnodes = <<>> THEN scene
    ELSE PreaddAll(preadd_node(scene, Head(xgnodes)), Tail(xgnodes))

RECURSIVE AddDagNodes(_, _)
AddDagNodes(scene, entries) ==
    IF entries = <<>> THEN scene
    ELSE AddDagNodes(add_dagnode(scene, get_node(scene, Head(entries).key),
                                 [j \in 1..Len(Head(entries).children) |->
                                     get_node(scene, Head(entries).children[j])]),
                     Tail(entries))

HierNodesBare ==
    << new_xgnode("T1", "xgDagTransform"), new_xgnode("T2", "xgDagTransform"),
       new_xgnode("M1", "xgDagMesh"), new_xgnode("M2", "xgDagMesh"),
       new_xgnode("G1", "xgBgGeometry"), new_xgnode("G2", "xgBgGeometry"),
       new_xgnode("E1", "xgEnvelope"), new_xgnode("B1", "xgBone"),
       new_xgnode("X1", "xgBgMatrix"), new_xgnode("X2", "xgBgMatrix") >>

\* the nodes of the scenes: the material comes last, and each mesh has it
\* as its inputMaterial
HierNodes ==
    [i \in 1..Len(HierNodesBare) |->
        IF HierNodesBare[i].type = "xgDagMesh"
        THEN append_inputattrib(HierNodesBare[i], "inputMaterial",
                                Len(HierNodesBare) + 1)
        ELSE HierNodesBare[i]]
    \o << new_xgnode("MAT1", "xgMaterial") >>

\* the scene with the input edges f asks for and the dag entries given
HierScene(f, entries) ==
    LET s0 == PreaddAll(EmptyScene, HierNodes)
        s1 == LinkIf(f.t1m, s0, "T1", "inputMatrix", "X1")
        s2 == LinkIf(f.t2m, s1, "T2", "inputMatrix", "X2")
        s3 == LinkIf(f.m1g, s2, "M1", "inputGeometry", "G1")
        s4 == Link(s3, "M2", "inputGeometry", "G2")
        s5 == LinkIf(f.env # "none", s4, "G1", "inputGeometry", "E1")
        s6 == Link(Link(s5, "E1", "inputMatrix1", "B1"), "E1", "inputGeometry", "G2")
        s7 == LinkIf(f.env = "bone", s6, "B1", "inputMatrix", "X1")
        s8 == LinkIf(f.x1p, s7, "X1", "inputParentMatrix", "X2")
    IN  AddDagNodes(s8, entries)

HierFlags == [t1m : BOOLEAN, t2m : BOOLEAN, m1g : BOOLEAN,
              env : {"none", "bone", "barebone"}, x1p : BOOLEAN]

HierKeys == {"T1", "T2", "M1"}

HierChildren == {<<>>, <<"M1">>, <<"M2">>, <<"M1", "M2">>, <<"T2">>}

HierEntries == [key : HierKeys, children : HierChildren]

\* dag entries with distinct keys, in the order add_dagnode was called
HierDags ==
    {d \in UNION {[1..n -> HierEntries] : n \in 0..MaxDag} :
        \A i, j \in 1..Len(d) : i # j => d[i].key # d[j].key}

NewImporter(scene) ==
    [pc |-> "start", scene |-> scene, i |-> 1, empty |-> FALSE, armature |-> FALSE,
     meshobjs |-> <<>>, created |-> <<>>, tbones |-> <<>>, bbones |-> <<>>,
     mbones |-> <<>>, editbones |-> <<>>, materials |-> <<>>, matslots |-> <<>>,
     warnings |-> <<>>, exc |-> "none"]

InitHier ==
    /\ phase = "hierarchy" /\ profile = "geometry" /\ pc = "off"
    /\ IdleReader /\ IdleAnimSep /\ IdleVt
    /\ \E f \in HierFlags, d \in HierDags : imp = NewImporter(HierScene(f, d))

XgNodeOf(st, n) == st.scene.nodes[n]

\* self.warn(message): the message is kept as its kind and the node it names
warn(st, kind, n) == [st EXCEPT !.warnings = Append(@, [kind |-> kind, node |-> n])]

_get_empty(st) == [st EXCEPT !.empty = TRUE]

_get_armature(st) ==
    IF st.armature THEN st ELSE [_get_empty(st) EXCEPT !.armature = TRUE]

Mapped(map, n) == \E i \in 1..Len(map) : map[i].node = n

Lookup(map, n) == map[CHOOSE i \in 1..Len(map) : map[i].node = n].val

\* no bone name (None); the nodes of the model have names that are not empty
NoBone == ""

\* the name _init_bonematrix returns for matrixnode
BoneNameOf(st, matrixnode) ==
    IF Mapped(st.mbones, matrixnode) THEN Lookup(st.mbones, matrixnode)
    ELSE XgNodeOf(st, matrixnode).name

\* _init_bonematrix without its look in xgbgmatrix_bpybonename
_init_bonematrix_anew(st, matrixnode) ==
    LET name == XgNodeOf(st, matrixnode).name
    IN  [_get_armature(st) EXCEPT
            !.editbones = Append(@, [name |-> name, parent |-> NoBone]),
            !.mbones = Append(@, [node |-> matrixnode, val |-> name])]

_init_bonematrix(st, matrixnode) ==
    IF Mapped(st.mbones, matrixnode) THEN st
    ELSE LET name == XgNodeOf(st, matrixnode).name
         IN  [_get_armature(st) EXCEPT
                 !.editbones = Append(@, [name |-> name, parent |-> NoBone]),
                 !.mbones = Append(@, [node |-> matrixnode, val |-> name])]

SetBoneParent(st, name, parent) ==
    [st EXCEPT !.editbones = [i \in 1..Len(@) |->
                                 IF @[i].name = name THEN [@[i] EXCEPT !.parent = parent]
                                 ELSE @[i]]]

\* while hasattr(cur_mtxnode, "inputParentMatrix")
RECURSIVE InitParentBones(_, _)
InitParentBones(st, cur_mtxnode) ==
    IF hasattr(XgNodeOf(st, cur_mtxnode), "inputParentMatrix")
    THEN LET par_mtxnode == FirstInput(XgNodeOf(st, cur_mtxnode), "inputParentMatrix")
             s1 == _init_bonematrix(st, par_mtxnode)
             s2 == SetBoneParent(s1, BoneNameOf(s1, cur_mtxnode),
                                 BoneNameOf(s1, par_mtxnode))
         IN  InitParentBones(s2, par_mtxnode)
    ELSE st

\* what _init_bone_hierarchy does about a bone node without inputMatrix
BoneWithoutMatrix(st, bonenode) ==
    LET w == warn(st, "no inputMatrix", bonenode)
    IN  IF XgNodeOf(st, bonenode).type # "xgDagTransform"
        THEN [st |-> [w EXCEPT !.exc = "Exception"], ret |-> NoBone]
        ELSE [st |-> w, ret |-> NoBone]

_init_bone_hierarchy(st, bonenode) ==
    LET xgnode == XgNodeOf(st, bonenode)
        transform == xgnode.type = "xgDagTransform"
        bonename_mapping == IF transform THEN st.tbones ELSE st.bbones
    IN  IF xgnode.type \notin {"xgDagTransform", "xgBone"}
        THEN [st |-> warn(st, "not a bone", bonenode), ret |-> NoBone]
        ELSE IF Mapped(bonename_mapping, bonenode)
        THEN [st |-> st, ret |-> Lookup(bonename_mapping, bonenode)]
        ELSE IF hasattr(xgnode, "inputMatrix")
        THEN LET mtx == FirstInput(xgnode, "inputMatrix")
                 s1 == _init_bonematrix(_get_armature(st), mtx)
                 bpybone_name == BoneNameOf(s1, mtx)
                 s2 == InitParentBones(s1, mtx)
                 entry == [node |-> bonenode, val |-> bpybone_name]
             IN  [st |-> IF transform THEN [s2 EXCEPT !.tbones = Append(@, entry)]
                         ELSE [s2 EXCEPT !.bbones = Append(@, entry)],
                  ret |-> bpybone_name]
        ELSE BoneWithoutMatrix(st, bonenode)

\* for envnode in envelopenodes: self._init_bone_hierarchy(envnode.inputMatrix1[0])
RECURSIVE InitEnvelopeBones(_, _)
InitEnvelopeBones(st, envelopenodes) ==
    IF envelopenodes = <<>> \/ st.exc # "none" THEN st
    ELSE InitEnvelopeBones(
             _init_bone_hierarchy(
                 st, FirstInput(XgNodeOf(st, Head(envelopenodes)), "inputMatrix1")).st,
             Tail(envelopenodes))

\* a mesh object that was given no parent
NewMeshObjectLoose(n) ==
    [node |-> n, parent |-> "none", parent_type |-> "OBJECT", parent_bone |-> NoBone]

\* bpy.data.objects.new(..) with bpymeshobj.parent = self._get_empty()
NewMeshObject(n) ==
    [node |-> n, parent |-> "empty", parent_type |-> "OBJECT", parent_bone |-> NoBone]

SetMeshObject(st, n, obj) ==
    [st EXCEPT !.meshobjs = [i \in 1..Len(@) |-> IF @[i].node = n THEN obj ELSE @[i]]]

MeshObject(st, n) == st.meshobjs[CHOOSE i \in 1..Len(st.meshobjs) : st.meshobjs[i].node = n]

\* the material matnode is created, or found in regmatnode_bpymat, and
\* appended to the mesh's materials
AppendMaterial(st, dagmeshnode, matnode) ==
    [st EXCEPT
        !.materials = IF Mapped(@, matnode) THEN @
                      ELSE Append(@, [node |-> matnode,
                                      val |-> XgNodeOf(st, matnode).name]),
        !.matslots = Append(@, [mesh |-> dagmeshnode, mat |-> matnode])]

\* what _init_dagmesh does with matnode = dagmeshnode.inputMaterial[0]
InitMaterialNode(st, dagmeshnode, matnode) ==
    IF XgNodeOf(st, matnode).type = "xgMaterial"
    THEN AppendMaterial(st, dagmeshnode, matnode)
    ELSE IF XgNodeOf(st, matnode).type = "xgMultiPassMaterial"
    THEN AppendMaterial(warn(st, "multi-layer material", matnode), dagmeshnode,
                        FirstInput(XgNodeOf(st, matnode), "inputMaterial"))
    ELSE [st EXCEPT !.exc = "XgImportError"]

\* the material part of _init_dagmesh for a mesh that is new
InitMaterial(st, dagmeshnode) ==
    IF ~hasattr(XgNodeOf(st, dagmeshnode), "inputMaterial") THEN st
    ELSE InitMaterialNode(st, dagmeshnode,
                          FirstInput(XgNodeOf(st, dagmeshnode), "inputMaterial"))

\* _init_dagmesh that takes every mesh for a new one
_init_dagmesh_anew(st, dagmeshnode, dagtransform) ==
    LET s1 == InitMaterial([_get_empty(st) EXCEPT
                                !.created = Append(@, dagmeshnode),
                                !.meshobjs = Append(@, NewMeshObject(dagmeshnode))],
                           dagmeshnode)
    IN  [st |-> s1, ret |-> dagmeshnode]

\* the part of _init_dagmesh for a new mesh that comes after its material:
\* the bones of its envelopes and the armature as its parent
InitMeshBones(s1, dagmeshnode, dagtransform) ==
    LET xgnode == XgNodeOf(s1, dagmeshnode)
    IN  IF s1.exc # "none" THEN [st |-> s1, ret |-> 0]
        ELSE IF ~hasattr(xgnode, "inputGeometry")
        THEN [st |-> [s1 EXCEPT !.exc = "AttributeError"], ret |-> 0]
        ELSE
          LET bggeometrynode == XgNodeOf(s1, FirstInput(xgnode, "inputGeometry"))
              isenv(n) == XgNodeOf(s1, n).type = "xgEnvelope"
              envelopenodes ==
                  IF hasattr(bggeometrynode, "inputGeometry")
                  THEN SelectSeq(GetAttr(bggeometrynode, "inputGeometry"), isenv)
                  ELSE <<>>
              s2 == IF dagtransform
                    THEN warn(s1, "xgDagTransform and xgEnvelope", dagmeshnode)
                    ELSE s1
              s3 == InitEnvelopeBones(s2, envelopenodes)
              s4 == SetMeshObject(_get_armature(s3), dagmeshnode,
                        [MeshObject(s3, dagmeshnode) EXCEPT !.parent = "armature"])
          IN  IF envelopenodes = <<>> THEN [st |-> s1, ret |-> dagmeshnode]
              ELSE IF s3.exc # "none" THEN [st |-> s3, ret |-> 0]
              ELSE [st |-> s4, ret |-> dagmeshnode]

\* 0 stands for no mesh object (None)
_init_dagmesh(st, dagmeshnode, dagtransform) ==
    IF XgNodeOf(st, dagmeshnode).type # "xgDagMesh"
    THEN [st |-> warn(st, "not an xgDagMesh", dagmeshnode), ret |-> 0]
    ELSE IF Mapped(st.meshobjs, dagmeshnode)
    THEN [st |-> warn(st, "used multiple times", dagmeshnode), ret |-> dagmeshnode]
    ELSE InitMeshBones(
             InitMaterial([_get_empty(st) EXCEPT
                              !.created = Append(@, dagmeshnode),
                              !.meshobjs = Append(@, NewMeshObject(dagmeshnode))],
                          dagmeshnode),
             dagmeshnode, dagtransform)

\* _init_dagmesh on each child in turn; rets are the objects returned
RECURSIVE InitDagMeshes(_, _, _, _)
InitDagMeshes(st, dagchildren, dagtransform, rets) ==
    IF dagchildren = <<>> \/ st.exc # "none" THEN [st |-> st, rets |-> rets]
    ELSE LET r == _init_dagmesh(st, Head(dagchildren), dagtransform)
         IN  InitDagMeshes(r.st, Tail(dagchildren), dagtransform, Append(rets, r.ret))

\* for bpymeshobj in bpymeshobjs: parent it to the bone
RECURSIVE ParentToBone(_, _, _)
ParentToBone(st, rets, bpybone_name) ==
    IF rets = <<>> THEN st
    ELSE IF Head(rets) = 0 THEN ParentToBone(st, Tail(rets), bpybone_name)
    ELSE ParentToBone(
             SetMeshObject(_get_armature(st), Head(rets),
                 [MeshObject(st, Head(rets)) EXCEPT
                     !.parent = "armature", !.parent_type = "BONE",
                     !.parent_bone = bpybone_name]),
             Tail(rets), bpybone_name)

\* the body of the loop of _init_objs_hierarchy for one dag entry
InitDagEntry(st, dagkey, dagchildren) ==
    LET type == XgNodeOf(st, dagkey).type
    IN  IF type = "xgDagTransform"
        THEN LET b == _init_bone_hierarchy(st, dagkey)
                 m == InitDagMeshes(b.st, dagchildren, b.ret # NoBone, <<>>)
             IN  IF b.st.exc # "none" THEN b.st
                 ELSE IF b.ret # NoBone /\ m.st.exc = "none"
                      THEN ParentToBone(m.st, m.rets, b.ret)
                      ELSE m.st
        ELSE IF type = "xgDagMesh"
        THEN LET r == _init_dagmesh(st, dagkey, FALSE)
             IN  IF r.st.exc = "none" /\ dagchildren # <<>>
                 THEN warn(r.st, "has dag children", dagkey)
                 ELSE r.st
        ELSE warn(st, "unexpected dag node type", dagkey)

HierBegin ==
    /\ phase = "hierarchy" /\ imp.pc = "start"
    /\ imp' = [_get_empty(imp) EXCEPT !.pc = "dag"]
    /\ ImpStep

HierEntry ==
    /\ phase = "hierarchy" /\ imp.pc = "dag" /\ imp.i <= Len(imp.scene.dag)
    /\ LET e == imp.scene.dag[imp.i]
           st == InitDagEntry(imp, e.key, e.children)
       IN  imp' = [st EXCEPT !.i = imp.i + 1,
                             !.pc = IF st.exc # "none" THEN "raised" ELSE "dag"]
    /\ ImpStep

HierEnd ==
    /\ phase = "hierarchy" /\ imp.pc = "dag" /\ imp.i > Len(imp.scene.dag)
    /\ imp' = [imp EXCEPT !.pc = "hierdone"]
    /\ ImpStep

NextHier ==
    \/ HierBegin
    \/ HierEntry
    \/ HierEnd

SpecHier == InitHier /\ [][NextHier]_vars

HierDone == phase = "hierarchy" /\ imp.pc = "hierdone"

TypeOf(n) == imp.scene.nodes[n].type

\* the dag has key T, a transform without inputMatrix, with the mesh M among
\* its children
PrunedParent(T, M) ==
    /\ TypeOf(T) = "xgDagTransform" /\ TypeOf(M) = "xgDagMesh"
    /\ ~hasattr(imp.scene.nodes[T], "inputMatrix")
    /\ \E i \in 1..Len(imp.scene.dag) :
          /\ imp.scene.dag[i].key = T
          /\ \E j \in 1..Len(imp.scene.dag[i].children) :
                imp.scene.dag[i].children[j] = M

\* the dag has a transform with inputMatrix that has M among its children
AnimatedParent(M) ==
    \E i \in 1..Len(imp.scene.dag) :
        /\ TypeOf(imp.scene.dag[i].key) = "xgDagTransform"
        /\ hasattr(imp.scene.nodes[imp.scene.dag[i].key], "inputMatrix")
        /\ \E j \in 1..Len(imp.scene.dag[i].children) :
              imp.scene.dag[i].children[j] = M

\* the geometry of M has an xgEnvelope among its inputs
Skinned(M) ==
    /\ hasattr(imp.scene.nodes[M], "inputGeometry")
    /\ LET g == imp.scene.nodes[FirstInput(imp.scene.nodes[M], "inputGeometry")]
       IN  /\ hasattr(g, "inputGeometry")
           /\ \E k \in 1..Len(GetAttr(g, "inputGeometry")) :
                 TypeOf(GetAttr(g, "inputGeometry")[k]) = "xgEnvelope"

TimesCreated(M) == Cardinality({k \in 1..Len(imp.created) : imp.created[k] = M})

HierNodeIds == 1..Len(imp.scene.nodes)

\* how often the dag names M as a key or as a child of a transform
Occurrences(M) ==
    Cardinality({i \in 1..Len(imp.scene.dag) : imp.scene.dag[i].key = M})
    + Cardinality({<<i, j>> \in (1..Len(imp.scene.dag)) \X (1..MaxKids) :
                      /\ TypeOf(imp.scene.dag[i].key) = "xgDagTransform"
                      /\ j <= Len(imp.scene.dag[i].children)
                      /\ imp.scene.dag[i].children[j] = M})

\* how many warnings of kind are about node n
WarningsAbout(kind, n) ==
    Cardinality({k \in 1..Len(imp.warnings) :
                    imp.warnings[k] = [kind |-> kind, node |-> n]})

\* no two entries of map are about the same node
OneEntryEach(map) == \A i, j \in 1..Len(map) : i # j => map[i].node # map[j].node

\* how many edit bones carry name
BonesNamed(name) ==
    Cardinality({k \in 1..Len(imp.editbones) : imp.editbones[k].name = name})

\* C25: however many transforms, envelope bones and parent chains reach a
\* matrix node, it has exactly one bone, and each xgDagTransform or xgBone
\* that was given a bone maps to exactly one bone, the one of its
\* inputMatrix[0]; reaching a node again makes no second bone.
BoneIdentity ==
    phase = "hierarchy" =>
        /\ OneEntryEach(imp.mbones) /\ OneEntryEach(imp.tbones)
        /\ OneEntryEach(imp.bbones)
        /\ Len(imp.editbones) = Len(imp.mbones)
        /\ \A i \in 1..Len(imp.mbones) :
              /\ BonesNamed(imp.mbones[i].val) = 1
              /\ \A j \in 1..Len(imp.mbones) :
                    i # j => imp.mbones[i].val # imp.mbones[j].val
        /\ \A i \in 1..Len(imp.tbones) :
              /\ TypeOf(imp.tbones[i].node) = "xgDagTransform"
              /\ Mapped(imp.mbones, FirstInput(imp.scene.nodes[imp.tbones[i].node],
                                              "inputMatrix"))
              /\ imp.tbones[i].val =
                    Lookup(imp.mbones, FirstInput(imp.scene.nodes[imp.tbones[i].node],
                                                  "inputMatrix"))
        /\ \A i \in 1..Len(imp.bbones) :
              /\ TypeOf(imp.bbones[i].node) = "xgBone"
              /\ Mapped(imp.mbones, FirstInput(imp.scene.nodes[imp.bbones[i].node],
                                              "inputMatrix"))
              /\ imp.bbones[i].val =
                    Lookup(imp.mbones, FirstInput(imp.scene.nodes[imp.bbones[i].node],
                                                  "inputMatrix"))

\* C26: an xgDagMesh yields one mesh object however often the dag names it as
\* a key or as a child of transforms; each occurrence after the first appends
\* a warning and creates no mesh object, material or bone.
MeshMaterialisedOnce ==
    phase = "hierarchy" =>
        /\ \A M \in HierNodeIds :
              /\ TimesCreated(M) <= 1
              /\ Cardinality({k \in 1..Len(imp.meshobjs) : imp.meshobjs[k].node = M}) <= 1
              /\ Cardinality({k \in 1..Len(imp.matslots) : imp.matslots[k].mesh = M}) <= 1
              /\ (HierDone /\ TypeOf(M) = "xgDagMesh" /\ Occurrences(M) >= 1) =>
                    /\ TimesCreated(M) = 1
                    /\ WarningsAbout("used multiple times", M) = Occurrences(M) - 1
        /\ \A k \in 1..Len(imp.meshobjs), dagtransform \in BOOLEAN :
              imp.exc = "none" =>
                  _init_dagmesh(imp, imp.meshobjs[k].node, dagtransform)
                      = [st |-> warn(imp, "used multiple times", imp.meshobjs[k].node),
                         ret |-> imp.meshobjs[k].node]

\* mesh M1 is a child of both transforms and M2 of one: two objects, one
\* material for both, one warning about M1
MeshMaterialisedOnceWitness ==
    /\ HierDone
    /\ \E M \in HierNodeIds :
          /\ imp.scene.nodes[M].name = "M1"
          /\ Occurrences(M) = 2 /\ TimesCreated(M) = 1
          /\ WarningsAbout("used multiple times", M) = 1
    /\ Len(imp.created) = 2 /\ Len(imp.materials) = 1 /\ Len(imp.matslots) = 2

\* a transform and an envelope bone share matrix X1, whose parent X2 is also
\* the matrix of a second transform: two bones in all
BoneIdentityWitness ==
    /\ HierDone
    /\ Len(imp.tbones) = 2 /\ Len(imp.bbones) = 1
    /\ \A i \in 1..Len(imp.bbones) : imp.bbones[i].val = "X1"
    /\ \E i \in 1..Len(imp.tbones) : imp.tbones[i].val = "X1"
    /\ \E i \in 1..Len(imp.tbones) : imp.tbones[i].val = "X2"
    /\ imp.editbones = <<[name |-> "X1", parent |-> "X2"],
                         [name |-> "X2", parent |-> NoBone]>>

\* C13 as stated: whenever the dag holds a transform T without inputMatrix that
\* parents mesh M, the finished hierarchy has no bone for T, one object for M,
\* and M parented to the Empty and to no bone.
PrunedTransformPromotion ==
    HierDone =>
        \A T, M \in HierNodeIds :
            PrunedParent(T, M) =>
                /\ ~Mapped(imp.tbones, T)
                /\ TimesCreated(M) = 1
                /\ MeshObject(imp, M).parent = "empty"
                /\ MeshObject(imp, M).parent_type # "BONE"

\* C13: a transform T without inputMatrix never gets a bone; when the hierarchy
\* is finished a mesh M that T parents has exactly one object, which is
\* parented to the Empty and to no bone if M is not skinned by an envelope and
\* is no child of a transform that has an inputMatrix, and to the armature
\* object (as a mesh at the top of the dag is) if M is skinned.
PrunedTransformPromotionPlain ==
    phase = "hierarchy" =>
        \A T, M \in HierNodeIds :
            PrunedParent(T, M) =>
                /\ ~Mapped(imp.tbones, T)
                /\ TimesCreated(M) <= 1
                /\ HierDone =>
                      /\ TimesCreated(M) = 1
                      /\ (~Skinned(M) /\ ~AnimatedParent(M)) =>
                            /\ MeshObject(imp, M).parent = "empty"
                            /\ MeshObject(imp, M).parent_type # "BONE"
                      /\ (Skinned(M) /\ ~AnimatedParent(M)) =>
                            /\ MeshObject(imp, M).parent = "armature"
                            /\ MeshObject(imp, M).parent_type # "BONE"

PrunedTransformWitness ==
    /\ HierDone
    /\ \E T, M \in HierNodeIds :
          /\ PrunedParent(T, M) /\ ~Skinned(M) /\ ~AnimatedParent(M)
          /\ \E k \in 1..Len(imp.warnings) :
                imp.warnings[k] = [kind |-> "no inputMatrix", node |-> T]
          /\ MeshObject(imp, M).parent = "empty"
          /\ imp.tbones # <<>>

\* C18: a bone-providing node without inputMatrix (an xgDagTransform or an
\* envelope's xgBone) is skipped with a warning: it gets no bone, no exception
\* is raised for it and the import continues.
BoneWithoutMatrixNonFatal ==
    phase = "hierarchy" =>
        \A w \in 1..Len(imp.warnings) :
            imp.warnings[w].kind = "no inputMatrix" =>
                /\ ~Mapped(imp.tbones, imp.warnings[w].node)
                /\ ~Mapped(imp.bbones, imp.warnings[w].node)
                /\ imp.exc # "Exception"

\* the part of it that holds: the node gets no bone, and the warning about an
\* xgDagTransform raises nothing
BoneWithoutMatrixSkipped ==
    phase = "hierarchy" =>
        \A w \in 1..Len(imp.warnings) :
            imp.warnings[w].kind = "no inputMatrix" =>
                /\ ~Mapped(imp.tbones, imp.warnings[w].node)
                /\ ~Mapped(imp.bbones, imp.warnings[w].node)
                /\ imp.exc = "Exception" =>
                      \E v \in 1..Len(imp.warnings) :
                          /\ imp.warnings[v].kind = "no inputMatrix"
                          /\ TypeOf(imp.warnings[v].node) = "xgBone"

\* the envelope's xgBone without inputMatrix has stopped the import
BoneWithoutMatrixRaised ==
    /\ phase = "hierarchy" /\ imp.pc = "raised" /\ imp.exc = "Exception"
    /\ \E w \in 1..Len(imp.warnings) :
          /\ imp.warnings[w].kind = "no inputMatrix"
          /\ TypeOf(imp.warnings[w].node) = "xgBone"

(***************************************************************************)
(* xgimporter.py: XgImporter._tri_indices_from_dagmesh, one action for the *)
(* lists, one per strip and one for the fans.  Coordinates and normals are *)
(* integer vectors; the normals of the model lie along or across the face  *)
(* normals, so that every angle is 0, 90 or 180 degrees.  In imp:          *)
(*   mesh        dagmeshnode                                               *)
(*   vertices    dagmeshnode.inputGeometry[0].vertices                     *)
(*   tristrips, s   the strips and the one the loop is at                  *)
(*   chunks      the triangles appended so far, kept per prim              *)
(***************************************************************************)
TWOSIDED == 0

\* tridata_to_prims as one call, for the arrays of non-negative values
RECURSIVE KickSepPrims(_, _, _)
KickSepPrims(tridata, tridata_offset, prims) ==
    IF tridata_offset < Len(tridata)
    THEN LET prim_size == tridata[tridata_offset + 1]
             offset == tridata_offset + 1
         IN  KickSepPrims(tridata, offset + prim_size,
                          Append(prims, KickSepSlice(tridata, offset, prim_size)))
    ELSE prims

RECURSIVE KickGroupPrims(_, _, _, _)
KickGroupPrims(tridata, j, vertex_index, prims) ==
    IF j <= Len(tridata)
    THEN KickGroupPrims(tridata, j + 1, KickGroupAdvance(vertex_index, tridata[j]),
                        Append(prims, PyRange(vertex_index, vertex_index + tridata[j])))
    ELSE prims

tridata_to_prims(tridata, primtype) ==
    IF tridata = <<>> THEN [exc |-> "none", prims |-> <<>>]
    ELSE IF primtype = KICKSEP
    THEN [exc |-> "none", prims |-> KickSepPrims(tridata, 0, <<>>)]
    ELSE IF primtype = KICKGROUP
    THEN [exc |-> "none", prims |-> KickGroupPrims(tridata, 2, tridata[1], <<>>)]
    ELSE [exc |-> "ValueError", prims |-> <<>>]

Swap01(tri) == <<tri[2], tri[1], tri[3]>>

Reverse3(tri) == <<tri[3], tri[2], tri[1]>>

\* for i in range(len(tristrip) - 2): the triangles with every second one swapped
StripTris(tristrip) ==
    [i \in 1..Max(Len(tristrip) - 2, 0) |->
        LET tri == <<tristrip[i], tristrip[i + 1], tristrip[i + 2]>>
        IN  IF (i - 1) % 2 = 1 THEN Swap01(tri) ELSE tri]

\* trilist[i : i + 3] for i in range(0, len(trilist) - 2, 3), each reversed
ListTris(trilist) ==
    [i \in 1..((Max(Len(trilist) - 2, 0) + 2) \div 3) |->
        Reverse3(<<trilist[3 * i - 2], trilist[3 * i - 1], trilist[3 * i]>>)]

\* (trifan[0], trifan[i + 1], trifan[i + 2]) for i in range(len(trifan) - 2), reversed
FanTris(trifan) ==
    [i \in 1..Max(Len(trifan) - 2, 0) |->
        Reverse3(<<trifan[1], trifan[i + 1], trifan[i + 2]>>)]

Vec0 == <<0, 0, 0>>

VSub(a, b) == <<a[1] - b[1], a[2] - b[2], a[3] - b[3]>>

VAdd(a, b) == <<a[1] + b[1], a[2] + b[2], a[3] + b[3]>>

Cross(a, b) ==
    <<a[2] * b[3] - a[3] * b[2], a[3] * b[1] - a[1] * b[3], a[1] * b[2] - a[2] * b[1]>>

Dot(a, b) == a[1] * b[1] + a[2] * b[2] + a[3] * b[3]

\* sum(tri_dagnormals, Vector()) / 3.0, kept as the sum: three times the average
TriNormalSum(dagnormals, tri) ==
    VAdd(VAdd(dagnormals[tri[1] + 1], dagnormals[tri[2] + 1]), dagnormals[tri[3] + 1])

\* mathutils.geometry.normal(tri_dagcoords), not normalised
FaceNormal(dagcoords, tri) ==
    Cross(VSub(dagcoords[tri[2] + 1], dagcoords[tri[1] + 1]),
          VSub(dagcoords[tri[3] + 1], dagcoords[tri[1] + 1]))

\* a.angle(b, None) in degrees for vectors that are parallel, opposite or
\* perpendicular; None when one of them has no length
Angle(a, b) ==
    IF a = Vec0 \/ b = Vec0 THEN None
    ELSE IF Cross(a, b) = Vec0 THEN (IF Dot(a, b) > 0 THEN 0 ELSE 180)
    ELSE 90

RECURSIVE SumSeq(_)
SumSeq(xs) == IF xs = <<>> THEN 0 ELSE Head(xs) + SumSeq(Tail(xs))

\* the mean of the angles is at least a right angle
MeanReaches90(alldiffs) == SumSeq(alldiffs) >= 90 * Len(alldiffs)

\* avg_normal_diff > radians(90), with avg_normal_diff = sum / len
MeanExceeds90(alldiffs) == SumSeq(alldiffs) > 90 * Len(alldiffs)

\* the triangles one strip adds, and how many "unusable normal" warnings
StripChunk(vertices, fix_tristrip_winding_order, tristrip) ==
    LET tristrip_tris == StripTris(tristrip)
        diff(tri) == Angle(TriNormalSum(vertices.normals, tri),
                           FaceNormal(vertices.coords, tri))
        usable(tri) == diff(tri) # None
        normals_alldiffs ==
            LET used == SelectSeq(tristrip_tris, usable)
            IN  [k \in 1..Len(used) |-> diff(used[k])]
        unusable(tri) == diff(tri) = None /\ FaceNormal(vertices.coords, tri) # Vec0
    IN  IF ~fix_tristrip_winding_order
        THEN [tris |-> tristrip_tris, warned |-> 0]
        ELSE [tris |-> IF normals_alldiffs # <<>> /\ MeanExceeds90(normals_alldiffs)
                       THEN [k \in 1..Len(tristrip_tris) |-> Swap01(tristrip_tris[k])]
                       ELSE tristrip_tris,
              warned |-> Len(SelectSeq(tristrip_tris, unusable))]

RECURSIVE WarnTimes(_, _, _)
WarnTimes(st, kind, n) ==
    IF n = 0 THEN st ELSE WarnTimes(warn(st, kind, 0), kind, n - 1)

\* fix_winding_order and dagnormals and (dagmeshnode.cullFunc == TWOSIDED)
FixStrips(mesh, vertices) ==
    vertices.normals # <<>> /\ GetAttr(mesh, "cullFunc") = TWOSIDED

RECURSIVE SetProperties(_, _)
SetProperties(xgnode, props) ==
    IF props = <<>> THEN xgnode
    ELSE SetProperties(set_property(xgnode, Head(props)[1], Head(props)[2]), Tail(props))

StripCoords == << <<0, 0, 0>>, <<1, 0, 0>>, <<0, 1, 0>> >>

StripNormals ==
    { <<>>,
      << <<0, 0, 1>>, <<0, 0, 1>>, <<0, 0, 1>> >>,
      << <<0, 0, -1>>, <<0, 0, -1>>, <<0, 0, -1>> >>,
      << <<0, 0, 1>>, <<0, 0, 1>>, <<0, 0, -1>> >>,
      << <<0, 0, 1>>, <<0, 0, -1>>, Vec0 >>,
      << <<1, 0, 0>>, <<1, 0, 0>>, <<1, 0, 0>> >> }

Strips == UNION {[1..n -> 0..2] : n \in 0..MaxStrip}

SecondStrips == {<< >>, << <<0, 1, 2>> >>, << <<0, 2, 1>> >>}

StripMesh(primType, cullFunc, lists, strips, fans) ==
    SetProperties(new_xgnode("M1", "xgDagMesh"),
        << <<"primType", primType>>, <<"cullFunc", cullFunc>>,
           <<"triListData", lists>>, <<"triStripData", strips>>,
           <<"triFanData", fans>> >>)

StripMeshes ==
    {StripMesh(KICKSEP, c, l, AsRecords(<<a>> \o b), f) :
        c \in {TWOSIDED, 1}, l \in {<<>>, <<3, 0, 1, 2>>}, a \in Strips,
        b \in SecondStrips, f \in {<<>>, <<4, 0, 1, 2, 0>>}}
    \cup {StripMesh(t, c, l, d, f) :
            t \in {KICKGROUP, 3}, c \in {TWOSIDED, 1}, l \in {<<>>, <<0, 3>>},
            d \in {<<>>, <<0, 3>>}, f \in {<<>>, <<0, 3>>}}

InitStrips ==
    /\ phase = "strips" /\ profile = "geometry" /\ pc = "off"
    /\ IdleReader /\ IdleAnimSep /\ IdleVt
    /\ \E mesh \in StripMeshes, normals \in StripNormals :
          imp = [pc |-> "start", mesh |-> mesh,
                 vertices |-> Vertices(StripCoords, normals, <<>>, <<>>),
                 tristrips |-> <<>>, s |-> 1, chunks |-> <<>>, warnings |-> <<>>,
                 exc |-> "none"]

PrimChunks(kind, tris) == [k \in 1..Len(tris) |-> [kind |-> kind, tris |-> tris[k]]]

\* up to the loop over the strips: the primData warning and the triangle lists
TriLists ==
    /\ phase = "strips" /\ imp.pc = "start"
    /\ LET primType == GetAttr(imp.mesh, "primType")
           w == IF hasattr(imp.mesh, "primData") /\ GetAttr(imp.mesh, "primData") # <<>>
                THEN warn(imp, "primData", 0) ELSE imp
           trilists == tridata_to_prims(GetAttr(imp.mesh, "triListData"), primType)
           tristrips == tridata_to_prims(GetAttr(imp.mesh, "triStripData"), primType)
       IN  imp' = IF trilists.exc # "none"
                  THEN [w EXCEPT !.pc = "raised", !.exc = trilists.exc]
                  ELSE IF tristrips.exc # "none"
                  THEN [w EXCEPT
                          !.pc = "raised", !.exc = tristrips.exc,
                          !.chunks = PrimChunks("list",
                                         [k \in 1..Len(trilists.prims) |->
                                             ListTris(trilists.prims[k])])]
                  ELSE [w EXCEPT
                          !.pc = "strips",
                          !.chunks = PrimChunks("list",
                                         [k \in 1..Len(trilists.prims) |->
                                             ListTris(trilists.prims[k])]),
                          !.tristrips = tristrips.prims]
    /\ ImpStep

\* one pass of `for tristrip in tristrips`
TriStrip ==
    /\ phase = "strips" /\ imp.pc = "strips" /\ imp.s <= Len(imp.tristrips)
    /\ LET c == StripChunk(imp.vertices, FixStrips(imp.mesh, imp.vertices),
                           imp.tristrips[imp.s])
       IN  imp' = [WarnTimes(imp, "unusable normal", c.warned) EXCEPT
                     !.chunks = Append(@, [kind |-> "strip", tris |-> c.tris]),
                     !.s = imp.s + 1]
    /\ ImpStep

\* the triangle fans and the return
TriFans ==
    /\ phase = "strips" /\ imp.pc = "strips" /\ imp.s > Len(imp.tristrips)
    /\ LET trifans == tridata_to_prims(GetAttr(imp.mesh, "triFanData"),
                                       GetAttr(imp.mesh, "primType"))
       IN  imp' = IF trifans.exc # "none"
                  THEN [imp EXCEPT !.pc = "raised", !.exc = trifans.exc]
                  ELSE [imp EXCEPT
                          !.pc = "returned",
                          !.chunks = @ \o PrimChunks("fan",
                                              [k \in 1..Len(trifans.prims) |->
                                                  FanTris(trifans.prims[k])])]
    /\ ImpStep

NextStrips ==
    \/ TriLists
    \/ TriStrip
    \/ TriFans

SpecStrips == InitStrips /\ [][NextStrips]_vars

StripsRun == phase = "strips" /\ imp.pc \in {"strips", "returned"}

StripChunks == LET strip(c) == c.kind = "strip" IN SelectSeq(imp.chunks, strip)

\* the k-th triangle of a strip wound by the parity of its position
NaiveTri(strip, k) ==
    IF k % 2 = 1 THEN <<strip[k], strip[k + 1], strip[k + 2]>>
    ELSE <<strip[k + 1], strip[k], strip[k + 2]>>

NaiveTris(strip) == [k \in 1..Max(Len(strip) - 2, 0) |-> NaiveTri(strip, k)]

\* how the stored normals of a triangle stand to its face normal: 1 along it,
\* -1 against it, 0 across it or not comparable (no area, or normals adding up
\* to nothing)
Agreement(tri) ==
    LET d == Dot(TriNormalSum(imp.vertices.normals, tri),
                 FaceNormal(imp.vertices.coords, tri))
    IN  IF d > 0 THEN 1 ELSE IF d < 0 THEN -1 ELSE 0

CountOf(tris, a) == Cardinality({k \in 1..Len(tris) : Agreement(tris[k]) = a})

\* with angles of 0, 90 and 180 degrees the mean exceeds 90 exactly when more
\* triangles stand against their face normal than along it
MeanAbove90(strip) == CountOf(NaiveTris(strip), -1) > CountOf(NaiveTris(strip), 1)

HasNormalsAndTwoSided ==
    imp.vertices.normals # <<>> /\ GetAttr(imp.mesh, "cullFunc") = TWOSIDED

\* C14: each strip gives its len-2 triangles wound by parity, all of them
\* reversed when the mesh has normals, is two-sided and the mean angle between
\* stored and face normals of the strip's comparable triangles exceeds 90
\* degrees, and none of them reversed otherwise.
StripWinding ==
    StripsRun =>
        /\ Len(StripChunks) = imp.s - 1
        /\ \A k \in 1..Len(StripChunks) :
              LET strip == imp.tristrips[k]
                  naive == NaiveTris(strip)
              IN  StripChunks[k].tris =
                      IF HasNormalsAndTwoSided /\ MeanAbove90(strip)
                      THEN [j \in 1..Len(naive) |-> Swap01(naive[j])]
                      ELSE naive

\* a two-sided mesh with normals: the first strip, one triangle against its
\* face normal and one without area, has both reversed; the second strip, along
\* its face normal, stays as it is
StripWindingWitness ==
    /\ phase = "strips" /\ imp.pc = "returned" /\ HasNormalsAndTwoSided
    /\ imp.tristrips = << <<0, 2, 1, 1>>, <<0, 1, 2>> >>
    /\ StripChunks[1].tris = << <<2, 0, 1>>, <<2, 1, 1>> >>
    /\ StripChunks[2].tris = << <<0, 1, 2>> >>

(***************************************************************************)
(* xgimporter.py: _load_meshes, one action per pass of its loop, with       *)
(* _tri_indices_from_dagmesh as one call.  The meshes have their geometry, *)
(* primType, cullFunc and the three tri*Data properties; primData is       *)
(* absent, empty or filled.                                                *)
(***************************************************************************)
\* primType not in (KICKSEP, KICKGROUP)
NoPrimTypeUnsupported(primType) == FALSE

PrimTypeUnsupported(primType) == primType \notin {KICKSEP, KICKGROUP}

\* hasattr(dagmeshnode, "primData") and dagmeshnode.primData
HasPrimData(mesh) == hasattr(mesh, "primData") /\ GetAttr(mesh, "primData") # <<>>

\* _tri_indices_from_dagmesh(dagmeshnode) for the mesh numbered n
_tri_indices_from_dagmesh(st, n, mesh, vertices) ==
    LET w == IF HasPrimData(mesh) THEN warn(st, "primData", n) ELSE st
        primType == GetAttr(mesh, "primType")
        trilists == tridata_to_prims(GetAttr(mesh, "triListData"), primType)
        tristrips == tridata_to_prims(GetAttr(mesh, "triStripData"), primType)
        trifans == tridata_to_prims(GetAttr(mesh, "triFanData"), primType)
        strips == [k \in 1..Len(tristrips.prims) |->
                      StripChunk(vertices, FixStrips(mesh, vertices), tristrips.prims[k])]
        warned == SumSeq([k \in 1..Len(strips) |-> strips[k].warned])
    IN  IF trilists.exc # "none"
        THEN [st |-> w, exc |-> trilists.exc, triangles |-> <<>>]
        ELSE IF tristrips.exc # "none"
        THEN [st |-> w, exc |-> tristrips.exc, triangles |-> <<>>]
        ELSE IF trifans.exc # "none"
        THEN [st |-> WarnTimes(w, "unusable normal", warned), exc |-> trifans.exc,
              triangles |-> <<>>]
        ELSE [st |-> WarnTimes(w, "unusable normal", warned), exc |-> "none",
              triangles |->
                  Flatten([k \in 1..Len(trilists.prims) |-> ListTris(trilists.prims[k])])
                  \o Flatten([k \in 1..Len(strips) |-> strips[k].tris])
                  \o Flatten([k \in 1..Len(trifans.prims) |-> FanTris(trifans.prims[k])])]

PrimDatas == {<<"absent">>, <<"set", <<>> >>, <<"set", <<7>> >>}

LoadMesh(primType, primData, lists, strips, fans) ==
    LET m == StripMesh(primType, TWOSIDED, lists, strips, fans)
    IN  IF primData[1] = "absent" THEN m ELSE set_property(m, "primData", primData[2])

LoadMeshSet ==
    {LoadMesh(KICKSEP, p, l, s, <<>>) :
        p \in PrimDatas, l \in {<<>>, <<3, 0, 1, 2>>}, s \in {<<>>, <<4, 0, 2, 1, 1>>}}
    \cup {LoadMesh(KICKGROUP, p, <<0, 3>>, <<>>, f) :
            p \in PrimDatas, f \in {<<>>, <<0, 3>>}}
    \cup {LoadMesh(3, p, l, <<>>, <<>>) : p \in PrimDatas, l \in {<<>>, <<0, 3>>}}

InitLoadMeshes ==
    /\ phase = "loadmeshes" /\ profile = "geometry" /\ pc = "off"
    /\ IdleReader /\ IdleAnimSep /\ IdleVt
    /\ \E meshes \in UNION {[1..n -> LoadMeshSet] : n \in 1..MaxMeshes} :
          imp = [pc |-> "meshes", meshes |-> meshes,
                 vertices |-> Vertices(StripCoords,
                                       << <<0, 0, -1>>, <<0, 0, -1>>, <<0, 0, -1>> >>,
                                       <<>>, <<>>),
                 i |-> 1, loaded |-> <<>>, warnings |-> <<>>, exc |-> "none"]

\* one pass of the loop over xgdagmesh_bpymeshobj
LoadMeshPass ==
    /\ phase = "loadmeshes" /\ imp.pc = "meshes" /\ imp.i <= Len(imp.meshes)
    /\ LET dagmeshnode == imp.meshes[imp.i]
           r == _tri_indices_from_dagmesh(imp, imp.i, dagmeshnode, imp.vertices)
       IN  imp' = IF PrimTypeUnsupported(GetAttr(dagmeshnode, "primType"))
                  THEN [warn(imp, "primType", imp.i) EXCEPT !.i = imp.i + 1]
                  ELSE IF r.exc # "none"
                  THEN [r.st EXCEPT !.pc = "raised", !.exc = r.exc]
                  ELSE [r.st EXCEPT
                          !.loaded = Append(@, [node |-> imp.i, val |-> r.triangles]),
                          !.i = imp.i + 1]
    /\ ImpStep

LoadMeshesEnd ==
    /\ phase = "loadmeshes" /\ imp.pc = "meshes" /\ imp.i > Len(imp.meshes)
    /\ imp' = [imp EXCEPT !.pc = "done"]
    /\ ImpStep

NextLoadMeshes ==
    \/ LoadMeshPass
    \/ LoadMeshesEnd

SpecLoadMeshes == InitLoadMeshes /\ [][NextLoadMeshes]_vars

\* how many warnings of a kind name the mesh numbered n
WarningsOf(kind, n) ==
    Cardinality({w \in 1..Len(imp.warnings) :
                    imp.warnings[w].kind = kind /\ imp.warnings[w].node = n})

\* the number of triangles the three arrays of a mesh hold: a list of c
\* indices c \div 3, a strip or fan of c indices c - 2
TrisHeld(mesh) ==
    LET kicksep == GetAttr(mesh, "primType") = KICKSEP
        count(data) == IF data = <<>> THEN 0 ELSE IF kicksep THEN data[1] ELSE data[2]
        lists == count(GetAttr(mesh, "triListData"))
        strips == count(GetAttr(mesh, "triStripData"))
        fans == count(GetAttr(mesh, "triFanData"))
    IN  lists \div 3 + Max(strips - 2, 0) + Max(fans - 2, 0)

Abs(x) == IF x < 0 THEN -x ELSE x

RECURSIVE GCD(_, _)
GCD(a, b) == IF b = 0 THEN a ELSE GCD(b, a % b)

\* the fraction n / d in lowest terms (d is not 0)
Rat(n, d) ==
    LET g == GCD(Abs(n), Abs(d))
        sgn == IF d < 0 THEN -1 ELSE 1
    IN  [n |-> (sgn * n) \div g, d |-> (sgn * d) \div g]

\* x / y for y other than 0
RDiv(x, y) == Rat(x.n * y.d, x.d * y.n)

RMul(x, y) == Rat(x.n * y.n, x.d * y.d)

ROne == Rat(1, 1)

\* a scale vector as the importer names its parts
Vec(x, y, z) == <<x, y, z>>

\* the scale key as it is without a rest scale: Vector((x, y, z))
ScaleKeyAsIs(key, rest_scl) == key

\* Vector((x / rest_scl.x, y / rest_scl.y, z / rest_scl.z))
ScaleKeyRestAdjusted(key, rest_scl) ==
    Vec(RDiv(key[1], rest_scl[1]), RDiv(key[2], rest_scl[2]), RDiv(key[3], rest_scl[3]))

\* rscl2 as _load_bones stores it: the second assignment, Vector((sclx, scly, sclz))
StoredRestScale(rscl) == Vec(rscl[1], rscl[2], rscl[3])

\* range(0, animsep_playback_length + 1, animsep_keyframe_interval)
FrameNums(entry) ==
    [i \in 1..(IF entry.playback_length < 0 THEN 0
               ELSE entry.playback_length \div entry.keyframe_interval + 1) |->
        (i - 1) * entry.keyframe_interval]

\* the end keyframe taken one too low
EndKeyframeBefore(entry) ==
    entry.start_keyframe_idx + entry.playback_length \div entry.keyframe_interval - 1

EndKeyframe(entry) ==
    entry.start_keyframe_idx + entry.playback_length \div entry.keyframe_interval

\* the keys of one axis whose index is within the keyframes of the entry
AxisKeysOf(keys, axis, entry) ==
    LET inside(k) == entry.start_keyframe_idx <= k - 1 /\ k - 1 <= EndKeyframe(entry)
        idxs == SelectSeq([k \in 1..Len(keys) |-> k], inside)
    IN  [j \in 1..Len(idxs) |-> keys[idxs[j]][axis]]

\* zip(animsep_framenums, animsep_axis_keys)
Zip(xs, ys) == [j \in 1..Min(Len(xs), Len(ys)) |-> <<xs[j], ys[j]>>]

HalfR == Rat(1, 2)
TwoR == Rat(2, 1)
FourR == Rat(4, 1)

ScaleVecs == {Vec(ROne, ROne, ROne), Vec(TwoR, TwoR, TwoR), Vec(TwoR, HalfR, FourR)}

RestVecs == ScaleVecs \cup {Vec(Rat(-1, 1), TwoR, HalfR)}

\* a matrix node without inputScale
NoKeys == [present |-> FALSE, list |-> <<>>]

\* matrixnode.inputScale[0].keys
Keys3(list) == [present |-> TRUE, list |-> list]

ScaleKeyLists ==
    {NoKeys} \cup {Keys3(l) : l \in UNION {[1..n -> ScaleVecs] : n \in 0..MaxKeys}}

RestAnimSeps ==
    LET a == [playback_length |-> 1, keyframe_interval |-> 1, start_keyframe_idx |-> 0,
              speed_mode |-> 1]
        b == [playback_length |-> 2, keyframe_interval |-> 2, start_keyframe_idx |-> 1,
              speed_mode |-> 1]
    IN  {<<>>, <<a>>, <<a, b>>, <<b>>}

InitRest ==
    /\ phase = "restscale" /\ profile = "anim" /\ pc = "off"
    /\ IdleReader /\ IdleAnimSep /\ IdleVt
    /\ \E r1 \in RestVecs, r2 \in RestVecs, two \in BOOLEAN, s1 \in ScaleVecs,
          k1 \in ScaleKeyLists, k2 \in {NoKeys, Keys3(<<Vec(TwoR, TwoR, TwoR)>>)},
          animseps \in RestAnimSeps :
          imp = [pc |-> "bones", i |-> 1,
                 xgbones |-> <<[node |-> "B1", matrix |-> "X1", rscl |-> r1]>>
                             \o (IF two THEN <<[node |-> "B2", matrix |-> "X2", rscl |-> r2]>>
                                 ELSE <<>>),
                 matrices |-> <<[node |-> "X1", scale |-> s1, keys |-> k1],
                                [node |-> "X2", scale |-> Vec(TwoR, TwoR, TwoR),
                                 keys |-> k2]>>,
                 animseps |-> animseps,
                 restscale |-> <<>>, pose |-> <<>>, fcurves |-> <<>>]

MatrixOf(st, name) ==
    st.matrices[CHOOSE k \in 1..Len(st.matrices) : st.matrices[k].node = name]

\* dict[key] = value
SetItem(map, key, value) ==
    IF Mapped(map, key)
    THEN [k \in 1..Len(map) |-> IF map[k].node = key THEN [node |-> key, val |-> value]
                                ELSE map[k]]
    ELSE Append(map, [node |-> key, val |-> value])

\* _load_bones: one pass of the loop over xgbone_bpybonename
LoadBone ==
    /\ phase = "restscale" /\ imp.pc = "bones" /\ imp.i <= Len(imp.xgbones)
    /\ LET bone == imp.xgbones[imp.i]
       IN  imp' = [imp EXCEPT
                     !.restscale = SetItem(@, bone.matrix, StoredRestScale(bone.rscl)),
                     !.i = imp.i + 1]
    /\ ImpStep

\* _load_pose begun while bones are still without their rest
LoadBonesLeft ==
    /\ phase = "restscale" /\ imp.pc = "bones"
    /\ imp' = [imp EXCEPT !.pc = "pose", !.i = 1]
    /\ ImpStep

LoadBonesEnd ==
    /\ phase = "restscale" /\ imp.pc = "bones" /\ imp.i > Len(imp.xgbones)
    /\ imp' = [imp EXCEPT !.pc = "pose", !.i = 1]
    /\ ImpStep

\* _load_pose: one pass of the loop over xgbone_bpybonename
LoadPoseBone ==
    /\ phase = "restscale" /\ imp.pc = "pose" /\ imp.i <= Len(imp.xgbones)
    /\ LET bone == imp.xgbones[imp.i]
           scl == MatrixOf(imp, bone.matrix).scale
           rscl == IF Mapped(imp.restscale, bone.matrix)
                   THEN Lookup(imp.restscale, bone.matrix)
                   ELSE Vec(ROne, ROne, ROne)
       IN  imp' = [imp EXCEPT
                     !.pose = SetItem(@, bone.matrix,
                                      Vec(RDiv(scl[1], rscl[1]), RDiv(scl[2], rscl[2]),
                                          RDiv(scl[3], rscl[3]))),
                     !.i = imp.i + 1]
    /\ ImpStep

\* import_xgscene goes on to _load_animations when there are animseps to import
LoadPoseEnd ==
    /\ phase = "restscale" /\ imp.pc = "pose" /\ imp.i > Len(imp.xgbones)
    /\ imp' = [imp EXCEPT !.pc = IF imp.animseps = <<>> THEN "done" ELSE "anim", !.i = 1]
    /\ ImpStep

\* the scale curves of one matrix node for one animsep
ScaleCurves(bpybonename, scl_keys_restadj, a, entry) ==
    IF scl_keys_restadj = <<>> THEN <<>>
    ELSE [axis \in 1..3 |->
             [bone |-> bpybonename, anim |-> a, axis |-> axis,
              points |-> Zip(FrameNums(entry),
                             AxisKeysOf(scl_keys_restadj, axis, entry))]]

\* _load_animations: one pass of the loop over xgbgmatrix_bpybonename
LoadAnimMatrix ==
    /\ phase = "restscale" /\ imp.pc = "anim" /\ imp.i <= Len(imp.matrices)
    /\ LET m == imp.matrices[imp.i]
           scl_keys_restadj ==
               IF Mapped(imp.restscale, m.node)
               THEN [k \in 1..Len(m.keys.list) |->
                        ScaleKeyRestAdjusted(m.keys.list[k],
                                             Lookup(imp.restscale, m.node))]
               ELSE [k \in 1..Len(m.keys.list) |-> ScaleKeyAsIs(m.keys.list[k], <<>>)]
       IN  imp' = [imp EXCEPT
                     !.fcurves =
                         IF ~m.keys.present THEN @
                         ELSE @ \o Flatten([a \in 1..Len(imp.animseps) |->
                                               ScaleCurves(m.node, scl_keys_restadj, a,
                                                           imp.animseps[a])]),
                     !.i = imp.i + 1]
    /\ ImpStep

LoadAnimEnd ==
    /\ phase = "restscale" /\ imp.pc = "anim" /\ imp.i > Len(imp.matrices)
    /\ imp' = [imp EXCEPT !.pc = "done"]
    /\ ImpStep

NextRest ==
    \/ LoadBone
    \/ LoadBonesEnd
    \/ LoadPoseBone
    \/ LoadPoseEnd
    \/ LoadAnimMatrix
    \/ LoadAnimEnd

SpecRest == InitRest /\ [][NextRest]_vars

\* value times the rest scale gives the sample back
Undoes(value, rest, sample) == RMul(value, rest) = sample

\* C15: for a bone with a stored rest scale (rx, ry, rz) every scale key
\* (x, y, z) put on a curve and the default-pose scale are given out as
\* (x/rx, y/ry, z/rz), so a sample equal to the rest scale is given out as
\* (1, 1, 1).
RestScaleCorrection ==
    phase = "restscale" =>
        /\ \A c \in 1..Len(imp.fcurves) :
              LET f == imp.fcurves[c]
                  a == imp.animseps[f.anim]
                  keys == MatrixOf(imp, f.bone).keys.list
              IN  Mapped(imp.restscale, f.bone) =>
                      \A j \in 1..Len(f.points) :
                          LET sample == keys[a.start_keyframe_idx + j][f.axis]
                              rest == Lookup(imp.restscale, f.bone)[f.axis]
                          IN  /\ Undoes(f.points[j][2], rest, sample)
                              /\ sample = rest => f.points[j][2] = ROne
        /\ \A p \in 1..Len(imp.pose) :
              LET b == imp.pose[p].node
                  sample == MatrixOf(imp, b).scale
                  rest == Lookup(imp.restscale, b)
              IN  \A axis \in 1..3 :
                      /\ Undoes(imp.pose[p].val[axis], rest[axis], sample[axis])
                      /\ sample[axis] = rest[axis] => imp.pose[p].val[axis] = ROne

\* rest scale (2, 1/2, 4): the key (2, 1/2, 4) is given out as 1 on each axis
\* and the default-pose scale (2, 2, 2) as (1, 4, 1/2)
RestScaleWitness ==
    /\ phase = "restscale" /\ imp.pc = "done"
    /\ Lookup(imp.restscale, "X1") = Vec(TwoR, HalfR, FourR)
    /\ MatrixOf(imp, "X1").keys.list = <<Vec(TwoR, TwoR, TwoR), Vec(TwoR, HalfR, FourR)>>
    /\ MatrixOf(imp, "X1").scale = Vec(TwoR, TwoR, TwoR)
    /\ Lookup(imp.pose, "X1") = Vec(ROne, FourR, HalfR)
    /\ \E c \in 1..Len(imp.fcurves) :
          /\ imp.fcurves[c].bone = "X1" /\ imp.fcurves[c].axis = 2
          /\ imp.fcurves[c].points = << <<0, FourR>>, <<1, ROne>> >>

(***************************************************************************)
(* Stream ownership in xgscenereader.py, xgscenewriter.py and              *)
(* xganimsep.py: from_path / __init__, read_xgscene, write_xgscene,        *)
(* __del__ and read_animseps, one action per call and one per part of the  *)
(* body of the try statement.                                              *)
(***************************************************************************)
Codecs == {"XgSceneReader", "XgSceneWriter", "read_animseps"}

\* the autoclose arguments a caller can give, "default" for none
AutocloseArgs == {"default", "True", "False"}

\* the default of the autoclose parameter of __init__ and from_path
AutocloseDefault(codec) ==
    IF codec = "XgSceneReader" THEN FALSE ELSE TRUE

AutocloseOf(codec, arg) ==
    IF arg = "default" THEN AutocloseDefault(codec) ELSE arg = "True"

\* the parts of the body of the try statement, in order
Parts(codec) ==
    CASE codec = "XgSceneReader" -> <<"magic", "version", "_parse_xgnode", "_parse_dag">>
      [] codec = "XgSceneWriter" ->
            <<"_write_header", "_write_xgnode_declarations", "_write_xgnodes",
              "_write_dagsetup">>
      [] codec = "read_animseps" -> <<"read", "unpack">>

\* what a part can raise; KeyboardInterrupt can arrive in any of them
PartRaises(part) ==
    {"OSError", "KeyboardInterrupt"} \cup
    CASE part \in {"magic", "version"} -> {"XgInvalidFileError"}
      [] part = "_parse_xgnode" -> {"XgReadError", "EOFError", "AttributeError"}
      [] part = "_parse_dag" -> {"XgReadError", "EOFError"}
      [] part = "unpack" -> {"struct.error", "ValueError"}
      [] OTHER -> {}

\* isinstance(e, Exception): what an "except Exception" clause catches
IsException(e) == e # "KeyboardInterrupt"

NoStream == [pc |-> "new", codec |-> "none", arg |-> "default", owned |-> FALSE,
             autoclose |-> FALSE, isopen |-> FALSE, at |-> 0, exc |-> "none"]

InitStream ==
    /\ phase = "stream" /\ profile = "geometry" /\ pc = "off"
    /\ IdleReader /\ IdleAnimSep /\ IdleVt
    /\ imp = NoStream

\* XgSceneReader.from_path / XgSceneWriter.from_path: open(filepath), then
\* cls(file, autoclose=autoclose); a failing open raises out of from_path
FromPath ==
    /\ phase = "stream" /\ imp.pc = "new"
    /\ \E codec \in {"XgSceneReader", "XgSceneWriter"}, arg \in AutocloseArgs,
          opens \in BOOLEAN :
          imp' = IF opens
                 THEN [imp EXCEPT !.pc = "constructed", !.codec = codec, !.arg = arg,
                                  !.owned = TRUE, !.isopen = TRUE,
                                  !.autoclose = AutocloseOf(codec, arg)]
                 ELSE [imp EXCEPT !.pc = "noobject", !.codec = codec, !.arg = arg,
                                  !.exc = "OSError"]
    /\ ImpStep

\* XgSceneReader(file) / XgSceneWriter(file) on a stream the caller opened
FromFile ==
    /\ phase = "stream" /\ imp.pc = "new"
    /\ \E codec \in {"XgSceneReader", "XgSceneWriter"}, arg \in AutocloseArgs :
          imp' = [imp EXCEPT !.pc = "constructed", !.codec = codec, !.arg = arg,
                             !.owned = FALSE, !.isopen = TRUE,
                             !.autoclose = AutocloseOf(codec, arg)]
    /\ ImpStep

\* read_xgscene() / write_xgscene(xgscene) is called
CallScene ==
    /\ phase = "stream" /\ imp.pc = "constructed"
    /\ imp' = [imp EXCEPT !.pc = "running", !.at = 1]
    /\ ImpStep

\* read_animseps(file): a file without a read attribute is a path, opened
\* here with do_close set; a failing open raises before the try statement
CallAnimseps ==
    /\ phase = "stream" /\ imp.pc = "new"
    /\ \E ispath \in BOOLEAN, opens \in BOOLEAN :
          imp' = IF ispath /\ ~opens
                 THEN [imp EXCEPT !.pc = "raised", !.codec = "read_animseps",
                                  !.exc = "OSError"]
                 ELSE [imp EXCEPT !.pc = "running", !.codec = "read_animseps",
                                  !.owned = ispath, !.autoclose = ispath,
                                  !.isopen = TRUE, !.at = 1]
    /\ ImpStep

\* the handler reached when a part raises e: "except Exception" of
\* read_xgscene and write_xgscene, "finally" of read_animseps
OpenAfterFinally(st, e) ==
    IF st.autoclose THEN FALSE ELSE st.isopen

OpenAfterExcept(st, e) ==
    IF IsException(e) /\ st.autoclose THEN FALSE ELSE st.isopen

OpenAfterRaise(st, e) ==
    IF st.codec = "read_animseps" THEN OpenAfterFinally(st, e)
    ELSE OpenAfterExcept(st, e)

\* one part of the body completes or raises
Part ==
    /\ phase = "stream" /\ imp.pc = "running" /\ imp.at <= Len(Parts(imp.codec))
    /\ \/ imp' = [imp EXCEPT !.at = @ + 1]
       \/ \E e \in PartRaises(Parts(imp.codec)[imp.at]) :
             imp' = [imp EXCEPT !.pc = "raised", !.exc = e,
                                !.isopen = OpenAfterRaise(imp, e)]
    /\ ImpStep

\* the end of the body: "if self._autoclose: self._file.close()" and
\* return, for read_animseps return through "finally"
Return ==
    /\ phase = "stream" /\ imp.pc = "running" /\ imp.at > Len(Parts(imp.codec))
    /\ imp' = [imp EXCEPT !.pc = "returned",
                          !.isopen = IF imp.autoclose THEN FALSE ELSE @]
    /\ ImpStep

\* __del__ of the reader or writer, at any time after construction
Del ==
    /\ phase = "stream" /\ imp.codec \in {"XgSceneReader", "XgSceneWriter"}
    /\ imp.pc \in {"constructed", "returned", "raised"}
    /\ imp' = [imp EXCEPT !.pc = "deleted",
                          !.isopen = IF imp.autoclose THEN FALSE ELSE @]
    /\ ImpStep

NextStream ==
    \/ FromPath
    \/ FromFile
    \/ CallScene
    \/ CallAnimseps
    \/ Part
    \/ Return
    \/ Del

SpecStream == InitStream /\ [][NextStream]_vars

\* C16: a stream the codec opened from a path is closed when read_xgscene,
\* write_xgscene or read_animseps has returned or raised.
OwnedStreamClosed ==
    (phase = "stream" /\ imp.pc \in {"returned", "raised"} /\ imp.owned)
        => ~imp.isopen

\* what the code does give: read_animseps closes the stream it opened on
\* every way out, and a reader or writer closes on return and on an
\* Exception when, and only when, autoclose is true
OwnedStreamClosedIfAutoclose ==
    (phase = "stream" /\ imp.pc \in {"returned", "raised"} /\ imp.owned)
        => (imp.isopen <=> /\ imp.codec # "read_animseps"
                           /\ \/ ~imp.autoclose
                              \/ (imp.pc = "raised" /\ ~IsException(imp.exc)))

\* XgSceneReader.from_path(path).read_xgscene() has returned and the stream
\* is open
OwnedStreamLeftOpen ==
    /\ phase = "stream" /\ imp.pc = "returned"
    /\ imp.codec = "XgSceneReader" /\ imp.owned /\ imp.arg = "default"
    /\ imp.isopen

(***************************************************************************)
(* xgimporter.py: XgImporter.from_path, __init__ and import_xgscene, one   *)
(* action per call from_path makes and one per stage of import_xgscene.    *)
(* A path is the sequence of the characters of a file name, the word       *)
(* "animsep" taken as one character.                                       *)
(***************************************************************************)
extsep == "."

PathChars == {"a", extsep}

\* the file names offered as xgscenepath: at least one letter in each
ScenePaths ==
    {p \in UNION {[1..n -> PathChars] : n \in 1..MaxName} :
        \E j \in 1..Len(p) : p[j] # extsep}

\* the path as it is
SplitextWhole(p) == p

\* os.path.splitext(p)[0]: p up to its last dot, when a character other
\* than a dot precedes that dot, else p
SplitextRoot(p) ==
    LET dots == {j \in 1..Len(p) : p[j] = extsep}
    IN  IF dots = {} THEN p
        ELSE LET dotIndex == CHOOSE j \in dots : \A k \in dots : k <= j
             IN  IF \E j \in 1..(dotIndex - 1) : p[j] # extsep
                 THEN SubSeq(p, 1, dotIndex - 1)
                 ELSE p

\* f"{os.path.splitext(xgscenepath)[0]}{os.path.extsep}animsep"
AnimsepPath(xgscenepath) == SplitextRoot(xgscenepath) \o <<extsep, "animsep">>

\* the files that may lie next to the scene file
SideFiles(p) == {SubSeq(p, 1, k) \o <<extsep, "animsep">> : k \in 1..Len(p)}

NoAnimseps == [none |-> TRUE, n |-> 0]

AnimsepList(n) == [none |-> FALSE, n |-> n]

AnimsepWarning == "No animseps data provided, animations will not be imported"

InitImport ==
    /\ phase = "import" /\ profile = "anim" /\ pc = "off"
    /\ IdleReader /\ IdleAnimSep /\ IdleVt
    /\ \E p \in ScenePaths :
       \E fs \in SUBSET ({p} \cup SideFiles(p)) :
          imp = [pc |-> "from_path", fs |-> fs, xgscenepath |-> p,
                 animseppath |-> <<>>, animseps |-> NoAnimseps,
                 import_animations |-> FALSE, warnings |-> <<>>,
                 meshes |-> FALSE, bones |-> FALSE, called |-> <<>>,
                 exc |-> "none"]

\* from_path lines 172-175: the scene file is opened and read
FromPathReadScene ==
    /\ phase = "import" /\ imp.pc = "from_path"
    /\ IF imp.xgscenepath \notin imp.fs
       THEN imp' = [imp EXCEPT !.pc = "raised", !.exc = "FileNotFoundError"]
       ELSE \E e \in {"none", "XgInvalidFileError", "XgReadError"} :
               imp' = [imp EXCEPT !.pc = IF e = "none" THEN "animsep" ELSE "raised",
                                  !.exc = e]
    /\ ImpStep

\* self._import_animations of __init__
ImportAnimations(xganimseps) == ~xganimseps.none

\* XgImporter.__init__ as from_path calls it: texturedir is a string
NewXgImporter(st, xganimseps) ==
    LET st1 == [st EXCEPT !.animseps = xganimseps,
                          !.import_animations = ImportAnimations(xganimseps),
                          !.warnings = <<>>]
    IN  IF xganimseps.none THEN warn(st1, AnimsepWarning, "") ELSE st1

\* from_path lines 177-183: read_animseps(animseppath), FileNotFoundError
\* caught, then cls(xgscene, texturedir, animseps, ...)
FromPathReadAnimseps ==
    /\ phase = "import" /\ imp.pc = "animsep"
    /\ LET animseppath == AnimsepPath(imp.xgscenepath)
           st == [imp EXCEPT !.animseppath = animseppath]
       IN  IF animseppath \notin imp.fs
           THEN imp' = [NewXgImporter(st, NoAnimseps) EXCEPT !.pc = "constructed"]
           ELSE \/ \E n \in 0..1 :
                     imp' = [NewXgImporter(st, AnimsepList(n)) EXCEPT
                                 !.pc = "constructed"]
                \/ imp' = [st EXCEPT !.pc = "raised", !.exc = "ValueError"]
    /\ ImpStep

\* one stage of import_xgscene has run: it returns or raises
Stage(st, name, next) ==
    {[st EXCEPT !.called = Append(@, name), !.pc = next],
     [st EXCEPT !.called = Append(@, name), !.pc = "import_raised",
                !.exc = "Exception"]}

\* import_xgscene line 241: _init_objs_hierarchy fills the mappings
ImportHierarchy ==
    /\ phase = "import" /\ imp.pc = "constructed"
    /\ \E meshes \in BOOLEAN, bones \in BOOLEAN :
          imp' \in Stage([imp EXCEPT !.meshes = meshes, !.bones = bones],
                         "_init_objs_hierarchy", "meshes")
    /\ ImpStep

\* lines 247-249
ImportMeshes ==
    /\ phase = "import" /\ imp.pc = "meshes"
    /\ IF imp.meshes THEN imp' \in Stage(imp, "_load_meshes", "bones")
       ELSE imp' = [imp EXCEPT !.pc = "bones"]
    /\ ImpStep

\* lines 251-253
ImportBones ==
    /\ phase = "import" /\ imp.pc = "bones"
    /\ IF imp.bones THEN imp' \in Stage(imp, "_load_bones", "pose")
       ELSE imp' = [imp EXCEPT !.pc = "pose"]
    /\ ImpStep

\* lines 255-258
ImportPose ==
    /\ phase = "import" /\ imp.pc = "pose"
    /\ imp' \in Stage(imp, "_load_pose", "animations")
    /\ ImpStep

\* lines 260-264
ImportAnims ==
    /\ phase = "import" /\ imp.pc = "animations"
    /\ IF imp.import_animations THEN imp' \in Stage(imp, "_load_animations", "done")
       ELSE imp' = [imp EXCEPT !.pc = "done"]
    /\ ImpStep

NextImport ==
    \/ FromPathReadScene
    \/ FromPathReadAnimseps
    \/ ImportHierarchy
    \/ ImportMeshes
    \/ ImportBones
    \/ ImportPose
    \/ ImportAnims

SpecImport == InitImport /\ [][NextImport]_vars

\* the name of the scene file with its extension, if it has one, replaced
\* by ".animsep"
IsSideFileOf(side, scenepath) ==
    \E k \in 1..Len(scenepath) :
        /\ side = SubSeq(scenepath, 1, k) \o <<extsep, "animsep">>
        /\ \/ k = Len(scenepath) /\ \A j \in 2..Len(scenepath) :
                                      scenepath[j] = extsep =>
                                          \A i \in 1..(j - 1) : scenepath[i] = extsep
           \/ /\ k < Len(scenepath) /\ scenepath[k + 1] = extsep
              /\ \A j \in (k + 2)..Len(scenepath) : scenepath[j] # extsep
              /\ \E i \in 1..k : scenepath[i] # extsep

\* from_path has read the scene file and found no side file
SideFileMissing ==
    /\ phase = "import"
    /\ imp.pc \notin {"from_path", "animsep"}
    /\ imp.xgscenepath \in imp.fs /\ imp.exc \notin {"XgInvalidFileError", "XgReadError"}
    /\ \A side \in imp.fs : ~IsSideFileOf(side, imp.xgscenepath)

HasWarning(message) == \E w \in 1..Len(imp.warnings) : imp.warnings[w].kind = message

Called(name) == \E c \in 1..Len(imp.called) : imp.called[c] = name

\* C17: from_path on a readable scene file without its .animsep side file
\* raises nothing and gives an importer with animation import off and a
\* warning in its warnings list; import_xgscene on it never loads animations.
MissingAnimsepRecoverable ==
    SideFileMissing =>
        /\ imp.pc # "raised"
        /\ ~imp.import_animations /\ imp.animseps.none
        /\ HasWarning(AnimsepWarning)
        /\ ~Called("_load_animations")

\* "a.a" read, "a.animsep" missing although "a.a.animsep" exists: the import
\* ran through meshes, bones and pose and stopped before the animations
MissingAnimsepWitness ==
    /\ SideFileMissing /\ imp.pc = "done"
    /\ imp.xgscenepath = <<"a", extsep, "a">>
    /\ <<"a", extsep, "a", extsep, "animsep">> \in imp.fs
    /\ imp.animseppath = <<"a", extsep, "animsep">>
    /\ imp.called = <<"_init_objs_hierarchy", "_load_meshes", "_load_bones", "_load_pose">>
    /\ Len(imp.warnings) = 1

(***************************************************************************)
(* xgscene.py: any sequence of new_xgnode, preadd_node and add_dagnode     *)
(* calls on one XgScene.  In imp:                                          *)
(*   scene    the XgScene; scene.nodes holds every node object made,       *)
(*            pre-added or not                                             *)
(*   calls    how many calls the scene has had                             *)
(*   exc      what the last call raised, "none" if it returned             *)
(*   before   the dag as it was when the last call began                   *)
(*   entered  the nodes that were pre-added at the call that brought them  *)
(*            into the dag                                                 *)
(***************************************************************************)
DagNodeNames == {"A", "B"}

DagNodeTypes == {"xgDagTransform", "xgDagMesh", "xgBgMatrix"}

InitDag ==
    /\ phase = "dag" /\ profile = "geometry" /\ pc = "off"
    /\ IdleReader /\ IdleAnimSep /\ IdleVt
    /\ imp = [pc |-> "calls", calls |-> 0, scene |-> EmptyScene, exc |-> "none",
              before |-> <<>>, entered |-> {}]

\* every node the dag holds, as key or child
DagMembers(scene) ==
    DagKeys(scene) \cup
    UNION {{scene.dag[i].children[j] : j \in 1..Len(scene.dag[i].children)} :
              i \in 1..Len(scene.dag)}

\* new_xgnode(nodename, nodetype): a node object that no scene knows yet
DagNewNode ==
    /\ phase = "dag" /\ imp.calls < MaxCalls /\ Len(imp.scene.nodes) < MaxObjs
    /\ \E nodename \in DagNodeNames, t \in DagNodeTypes :
          imp' = [imp EXCEPT !.scene.nodes = Append(@, new_xgnode(nodename, t)),
                             !.exc = "none", !.before = imp.scene.dag,
                             !.calls = @ + 1]
    /\ ImpStep

\* preadd_node(new_xgnode(nodename, nodetype)), as the reader calls it
DagPreadd ==
    /\ phase = "dag" /\ imp.calls < MaxCalls /\ Len(imp.scene.nodes) < MaxObjs
    /\ \E nodename \in DagNodeNames, t \in DagNodeTypes :
          imp' = [imp EXCEPT !.scene = preadd_node(@, new_xgnode(nodename, t)),
                             !.exc = "none", !.before = imp.scene.dag,
                             !.calls = @ + 1]
    /\ ImpStep

\* preadd_node of a node whose name is None
DagPreaddNameless ==
    /\ phase = "dag" /\ imp.calls < MaxCalls
    /\ imp' = [imp EXCEPT !.exc = "ValueError", !.before = imp.scene.dag,
                          !.calls = @ + 1]
    /\ ImpStep

\* add_dagnode(dagnode, children) as a whole: its checks, then the dag
AddDagnodeCall(st, dagkey, dagchildren) ==
    LET e == add_dagnode_error(st.scene, dagkey, dagchildren)
        scene2 == IF e = "none" THEN add_dagnode(st.scene, dagkey, dagchildren)
                  ELSE st.scene
        came == DagMembers(scene2) \ DagMembers(st.scene)
    IN  [st EXCEPT !.scene = scene2, !.exc = e, !.before = st.scene.dag,
                   !.calls = @ + 1,
                   !.entered = @ \cup (came \cap PoolNodes(st.scene))]

DagAdd ==
    /\ phase = "dag" /\ imp.calls < MaxCalls
    /\ \E dagkey \in 1..Len(imp.scene.nodes) :
       \E dagchildren \in UNION {[1..n -> 1..Len(imp.scene.nodes)] : n \in 0..MaxKids} :
          imp' = AddDagnodeCall(imp, dagkey, dagchildren)
    /\ ImpStep

NextDag ==
    \/ DagNewNode
    \/ DagPreadd
    \/ DagPreaddNameless
    \/ DagAdd

SpecDag == InitDag /\ [][NextDag]_vars

\* C20: after any sequence of preadd_node and add_dagnode calls every key and
\* child of the dag is an xgDagTransform or xgDagMesh that was pre-added when
\* it entered the dag, and a call that raised TypeError or ValueError left
\* the dag as it was.
DagTypeInvariant ==
    phase = "dag" =>
        /\ \A i \in 1..Len(imp.scene.dag) :
              LET e == imp.scene.dag[i]
                  isdag(n) == imp.scene.nodes[n].type = "xgDagTransform"
                              \/ imp.scene.nodes[n].type = "xgDagMesh"
              IN  /\ isdag(e.key) /\ e.key \in imp.entered
                  /\ \A j \in 1..Len(e.children) :
                        isdag(e.children[j]) /\ e.children[j] \in imp.entered
        /\ imp.exc \in {"TypeError", "ValueError"} => imp.scene.dag = imp.before

\* the dag holds a transform without children; the matrix node, pre-added
\* too, was then offered as its child and refused with TypeError
DagTypeWitness ==
    /\ phase = "dag" /\ imp.exc = "TypeError"
    /\ Len(imp.scene.nodes) = 2
    /\ imp.scene.nodes[1].type = "xgDagTransform"
    /\ imp.scene.nodes[2].type = "xgBgMatrix"
    /\ PoolNodes(imp.scene) = {1, 2}
    /\ imp.scene.dag = <<[key |-> 1, children |-> <<>>]>>
    /\ imp.before = imp.scene.dag

\* a mesh that was made and never pre-added is refused with ValueError
DagValueErrorWitness ==
    /\ phase = "dag" /\ imp.exc = "ValueError"
    /\ Len(imp.scene.nodes) = 2
    /\ imp.scene.nodes[2].type = "xgDagMesh" /\ 2 \notin PoolNodes(imp.scene)
    /\ imp.scene.dag = <<[key |-> 1, children |-> <<>>]>>

\* the transform named A was put into the dag with itself as child and then
\* lost its name to a second node: it is in the dag and pre-added no more
DagEvictedWitness ==
    /\ phase = "dag" /\ imp.exc = "none"
    /\ imp.scene.dag = <<[key |-> 1, children |-> <<1>>]>>
    /\ PoolNodes(imp.scene) = {2}

(***************************************************************************)
(* xgscenereader.py: what read_xgscene does to the scene, one action per   *)
(* top-level item of the stream: a declaration, a body with one input      *)
(* attribute, the dag block, or the empty token that ends the loop.  In    *)
(* imp:                                                                    *)
(*   scene     self._xgscene                                               *)
(*   items     how many top-level items were parsed                        *)
(*   declared  the names the stream has declared                           *)
(*   twice     whether the stream has declared a name a second time        *)
(***************************************************************************)
PoolItemNames == {"a", "b"}

PoolItemTypes == {"xgMaterial", "xgDagMesh", "xgBgMatrix"}

PoolInputs == {"inputMaterial", "inputTexture", "inputParentMatrix"}

InitPool ==
    /\ phase = "pool" /\ profile = "material" /\ pc = "off"
    /\ IdleReader /\ IdleAnimSep /\ IdleVt
    /\ imp = [pc |-> "top", scene |-> EmptyScene, items |-> 0, declared |-> {},
              twice |-> FALSE, exc |-> "none"]

\* "type name ;": new_xgnode and preadd_node
PoolDeclare ==
    /\ phase = "pool" /\ imp.pc = "top" /\ imp.items < MaxTop
    /\ \E nodename \in PoolItemNames, t \in PoolItemTypes :
          imp' = [imp EXCEPT !.scene = preadd_node(@, new_xgnode(nodename, t)),
                             !.items = @ + 1,
                             !.declared = @ \cup {nodename},
                             !.twice = @ \/ nodename \in imp.declared]
    /\ ImpStep

\* "type name { input inputnodename outputAttrib }": get_node of the name,
\* get_node of the input's name, append_inputattrib
DefineNode(st, nodename, token, inputnodename) ==
    IF ~HasNode(st.scene, nodename) \/ ~HasNode(st.scene, inputnodename)
    THEN [st EXCEPT !.pc = "raised", !.exc = "XgReadError"]
    ELSE LET n == get_node(st.scene, nodename)
         IN  IF token \notin ValidInputAttributes(st.scene.nodes[n].type)
             THEN [st EXCEPT !.pc = "raised", !.exc = "AttributeError"]
             ELSE [st EXCEPT !.scene.nodes[n] =
                                 append_inputattrib(@, token,
                                                    get_node(st.scene, inputnodename)),
                             !.items = @ + 1]

PoolDefine ==
    /\ phase = "pool" /\ imp.pc = "top" /\ imp.items < MaxTop
    /\ \E nodename \in PoolItemNames, token \in PoolInputs,
          inputnodename \in PoolItemNames :
          imp' = DefineNode(imp, nodename, token, inputnodename)
    /\ ImpStep

\* "dag { name [ names ] }" with one entry: _parse_dag, then the scene is
\* returned
ParseDag(st, token, childtokens) ==
    IF ~HasNode(st.scene, token)
       \/ \E j \in 1..Len(childtokens) : ~HasNode(st.scene, childtokens[j])
    THEN [st EXCEPT !.pc = "raised", !.exc = "XgReadError"]
    ELSE LET key == get_node(st.scene, token)
             kids == [j \in 1..Len(childtokens) |-> get_node(st.scene, childtokens[j])]
             e == add_dagnode_error(st.scene, key, kids)
         IN  IF e # "none" THEN [st EXCEPT !.pc = "raised", !.exc = e]
             ELSE [st EXCEPT !.scene = add_dagnode(@, key, kids), !.pc = "returned"]

PoolDag ==
    /\ phase = "pool" /\ imp.pc = "top"
    /\ \E token \in PoolItemNames,
          childtokens \in UNION {[1..n -> PoolItemNames] : n \in 0..1} :
          imp' = ParseDag(imp, token, childtokens)
    /\ ImpStep

\* the empty token ends the loop of read_xgscene
PoolEnd ==
    /\ phase = "pool" /\ imp.pc = "top"
    /\ imp' = [imp EXCEPT !.pc = "returned"]
    /\ ImpStep

NextPool ==
    \/ PoolDeclare
    \/ PoolDefine
    \/ PoolDag
    \/ PoolEnd

SpecPool == InitPool /\ [][NextPool]_vars

\* the nodes the pool holds: the values of _preadded_nodes
Held(scene) == {scene.pool[i].id : i \in 1..Len(scene.pool)}

\* the targets of the input-attribute edges of node n
EdgeTargets(scene, n) ==
    UNION {{scene.nodes[n].attrs[a].val[k] : k \in 1..Len(scene.nodes[n].attrs[a].val)} :
              a \in 1..Len(scene.nodes[n].attrs)}

\* the node the pool gives for the name of node t is t itself
IsTheNamed(scene, t) ==
    \E i \in 1..Len(scene.pool) :
        scene.pool[i].name = scene.nodes[t].name /\ scene.pool[i].id = t

\* C21: while a file is read and in the returned scene, every target of an
\* input-attribute edge of a node of the pool, and every key and child of the
\* dag, is the node the pool holds under that node's name.
ReferencesInPool ==
    (phase = "pool" /\ imp.pc # "raised") =>
        /\ \A n \in Held(imp.scene) :
              \A t \in EdgeTargets(imp.scene, n) : IsTheNamed(imp.scene, t)
        /\ \A i \in 1..Len(imp.scene.dag) :
              /\ IsTheNamed(imp.scene, imp.scene.dag[i].key)
              /\ \A j \in 1..Len(imp.scene.dag[i].children) :
                    IsTheNamed(imp.scene, imp.scene.dag[i].children[j])

\* the same for the streams that declare no name twice
ReferencesInPoolOnce ==
    (phase = "pool" /\ imp.pc # "raised" /\ ~imp.twice) =>
        /\ \A n \in Held(imp.scene) :
              \A t \in EdgeTargets(imp.scene, n) : IsTheNamed(imp.scene, t)
        /\ \A i \in 1..Len(imp.scene.dag) :
              /\ IsTheNamed(imp.scene, imp.scene.dag[i].key)
              /\ \A j \in 1..Len(imp.scene.dag[i].children) :
                    IsTheNamed(imp.scene, imp.scene.dag[i].children[j])

\* the returned scene holds material b whose inputTexture is a node named a
\* that the pool holds no more, a having been declared again
StaleReference ==
    /\ phase = "pool" /\ imp.pc = "returned"
    /\ \E n \in Held(imp.scene) :
          /\ imp.scene.nodes[n].name = "b" /\ imp.scene.nodes[n].type = "xgMaterial"
          /\ \E t \in EdgeTargets(imp.scene, n) :
                imp.scene.nodes[t].name = "a" /\ t \notin Held(imp.scene)

(***************************************************************************)
(* xgimporter.py: the texture of a material, as XgImporter.__init__ and    *)
(* _init_dagmesh treat it.  A directory entry is a record of its stem, its *)
(* format infix ("" when there is none), its extension and whether it is a *)
(* regular file.  In imp:                                                  *)
(*   texturedir  the constructor's argument, "None" or a directory         *)
(*   cwd, dir    the entries of the working directory and of texturedir    *)
(*   url         xgTexture.url of the material's texture, by its stem      *)
(*   textured    whether the material has an inputTexture                  *)
(*   images      the urls of the placeholder images made                   *)
(*   loaded      the paths of the images loaded from files                 *)
(*   image       what bpytex.image was set to                              *)
(***************************************************************************)
DirEntries ==
    {[stem |-> "t", fmt |-> "", ext |-> "PNG", isfile |-> TRUE],
     [stem |-> "t", fmt |-> "rgba32", ext |-> "png", isfile |-> TRUE],
     [stem |-> "u", fmt |-> "", ext |-> "png", isfile |-> FALSE],
     [stem |-> "u", fmt |-> "i8", ext |-> "png", isfile |-> TRUE]}

Urls == {"t", "u", "v"}

NoTextureDir == "No texture directory provided, textures will not be imported"

NoPng == "no suitable PNG file was found for texture"

Lower(ext) == IF ext = "PNG" THEN "png" ELSE ext

\* os.listdir(dir_): of the working directory when dir_ is None
Listdir(st) == IF st.texturedir = "None" THEN st.cwd ELSE st.dir

\* os.path.join(dir_, f) raises TypeError when dir_ is None
JoinRaises(st) == st.texturedir = "None"

\* url_to_png, when no os.path.join raised: the paths it may return, or {}
\* when it returns None
url_to_png(st) ==
    LET filesonly == {f \in Listdir(st) : f.isfile}
        try1 == {f \in filesonly : f.stem = st.url /\ f.fmt = "" /\ Lower(f.ext) = "png"}
        try2 == {f \in filesonly : f.stem = st.url
                                   /\ f.fmt \in {"rgba32", "rgb24", "i8", "i4"}
                                   /\ Lower(f.ext) = "png"}
    IN  IF try1 # {} THEN try1 ELSE try2

InitTexture ==
    /\ phase = "texture" /\ profile = "material" /\ pc = "off"
    /\ IdleReader /\ IdleAnimSep /\ IdleVt
    /\ \E texturedir \in {"None", "dir"}, cwd \in SUBSET DirEntries,
          url \in Urls, textured \in BOOLEAN :
          imp = [pc |-> "new", texturedir |-> texturedir, cwd |-> cwd,
                 dir |-> cwd,
                 url |-> url, textured |-> textured, warnings |-> {},
                 images |-> {}, loaded |-> {}, image |-> "none", exc |-> "none"]

\* XgImporter.__init__
TexNewXgImporter ==
    /\ phase = "texture" /\ imp.pc = "new"
    /\ imp' = [imp EXCEPT !.pc = "made",
                   !.warnings = IF imp.texturedir = "None"
                                THEN @ \cup {NoTextureDir} ELSE @]
    /\ ImpStep

\* the part of _init_dagmesh that sets up the texture of a new material
InitMaterialTexture(st, imagepath) ==
    IF ~st.textured THEN [st EXCEPT !.pc = "done"]
    ELSE IF Listdir(st) # {} /\ JoinRaises(st)
    THEN [st EXCEPT !.pc = "raised", !.exc = "TypeError"]
    ELSE IF url_to_png(st) # {} /\ st.texturedir # "None"
    THEN [st EXCEPT !.pc = "done", !.loaded = @ \cup {imagepath},
                    !.image = "loaded"]
    ELSE LET warned == IF st.texturedir # "None" /\ url_to_png(st) = {}
                       THEN [st EXCEPT !.warnings = @ \cup {NoPng}] ELSE st
             made == [warned EXCEPT !.images = @ \cup {st.url}]
         IN  IF JoinRaises(st)
             THEN [made EXCEPT !.pc = "raised", !.exc = "TypeError"]
             ELSE [made EXCEPT !.pc = "done", !.image = "placeholder"]

TexInitDagmesh ==
    /\ phase = "texture" /\ imp.pc = "made"
    /\ \E imagepath \in url_to_png(imp) \cup {[stem |-> imp.url]} :
          /\ (url_to_png(imp) # {} => imagepath \in url_to_png(imp))
          /\ imp' = InitMaterialTexture(imp, imagepath)
    /\ ImpStep

NextTexture ==
    \/ TexNewXgImporter
    \/ TexInitDagmesh

SpecTexture == InitTexture /\ [][NextTexture]_vars

\* C22: an importer made with texturedir None has the 'No texture directory
\* provided' warning, and importing a material that has an inputTexture ends
\* without raising and with a placeholder image on the material's texture.
NoTextureDirPlaceholder ==
    (phase = "texture" /\ imp.texturedir = "None" /\ imp.textured
       /\ imp.pc \in {"done", "raised"}) =>
        /\ imp.pc = "done"
        /\ imp.image = "placeholder"
        /\ NoTextureDir \in imp.warnings

\* what the code does instead: it records the warning and then always raises
\* TypeError at a path join with None, before any image is set
NoTextureDirRaises ==
    (phase = "texture" /\ imp.texturedir = "None") =>
        /\ imp.pc # "new" => NoTextureDir \in imp.warnings
        /\ (imp.textured /\ imp.pc \in {"done", "raised"}) =>
              imp.exc = "TypeError" /\ imp.image = "none"
        /\ (~imp.textured /\ imp.pc \in {"done", "raised"}) => imp.pc = "done"

\* the import raised TypeError after the placeholder image was made
NoTextureDirRaised ==
    /\ phase = "texture" /\ imp.texturedir = "None" /\ imp.textured
    /\ imp.pc = "raised" /\ imp.exc = "TypeError"
    /\ imp.cwd = {} /\ imp.images = {imp.url}

(***************************************************************************)
(* xgscenereader.py: _read_vertices, one action for the reads that come    *)
(* before its loop, one for each pass of the loop, one for the return.  In *)
(* imp:                                                                    *)
(*   ws       the words of the file from the flags word on                 *)
(*   o        how many of them were consumed                               *)
(*   flags, numVerts, vData, idx, x  the locals of the same names          *)
(*   coords, normals, colors, texcoords  the four lists                    *)
(***************************************************************************)
VertexFlags == 0..15 \cup {16, 25}

\* the words after the header: one too few, just enough, or two too many
VertexSlack == {-1, 0, 2}

Stride(flags) ==
    4 * Bit(flags, 0) + 3 * Bit(flags, 1) + 4 * Bit(flags, 2) + 2 * Bit(flags, 3)

InitVerts ==
    /\ phase = "vertices" /\ profile = "geometry" /\ pc = "off"
    /\ IdleReader /\ IdleAnimSep /\ IdleVt
    /\ \E f \in VertexFlags, n \in 0..MaxVerts, slack \in VertexSlack :
          /\ n * Stride(f) + slack >= 0
          /\ imp = [pc |-> "start",
                    ws |-> <<f, n>> \o [i \in 1..(n * Stride(f) + slack) |-> 100 + i],
                    o |-> 0, flags |-> 0, numVerts |-> 0, vData |-> <<>>,
                    idx |-> 0, x |-> 0, coords |-> <<>>, normals |-> <<>>,
                    colors |-> <<>>, texcoords |-> <<>>, exc |-> "none"]

\* vertexFlags, numVerts and vData are read
VertsRead ==
    /\ phase = "vertices" /\ imp.pc = "start"
    /\ LET vertexFlags == _read_word(imp.ws, 0)
           numVerts == _read_word(imp.ws, vertexFlags.o)
           stride == Stride(vertexFlags.val)
           vData == _read_floats(imp.ws, numVerts.o, numVerts.val * stride)
       IN  imp' = IF vData.ok
                  THEN [imp EXCEPT !.pc = "loop", !.flags = vertexFlags.val,
                                   !.numVerts = numVerts.val, !.vData = vData.val,
                                   !.o = vData.o]
                  ELSE [imp EXCEPT !.pc = "raised", !.exc = "struct.error"]
    /\ ImpStep

\* vData[idx : idx + len]
Slice(vData, start, len) ==
    [k \in 1..len |-> vData[start + k]]

\* the first slice of a pass with the fourth coordinate kept
DeinterleaveCoordsAll(st) ==
    IF Bit(st.flags, 0) = 1
    THEN [st EXCEPT !.coords = Append(@, Slice(st.vData, st.idx, 4)), !.idx = @ + 4]
    ELSE st

\* one pass of the loop "for x in range(numVerts)"
DeinterleaveCoords(st) ==
    IF Bit(st.flags, 0) = 1
    THEN [st EXCEPT !.coords = Append(@, Slice(st.vData, st.idx, 3)), !.idx = @ + 4]
    ELSE st

DeinterleaveNormals(st) ==
    IF Bit(st.flags, 1) = 1
    THEN [st EXCEPT !.normals = Append(@, Slice(st.vData, st.idx, 3)), !.idx = @ + 3]
    ELSE st

DeinterleaveColors(st) ==
    IF Bit(st.flags, 2) = 1
    THEN [st EXCEPT !.colors = Append(@, Slice(st.vData, st.idx, 4)), !.idx = @ + 4]
    ELSE st

DeinterleaveTexCoords(st) ==
    IF Bit(st.flags, 3) = 1
    THEN [st EXCEPT !.texcoords = Append(@, Slice(st.vData, st.idx, 2)), !.idx = @ + 2]
    ELSE st

VertsLoop ==
    /\ phase = "vertices" /\ imp.pc = "loop" /\ imp.x < imp.numVerts
    /\ imp' = [DeinterleaveTexCoords(DeinterleaveColors(DeinterleaveNormals(
                  DeinterleaveCoords(imp)))) EXCEPT !.x = @ + 1]
    /\ ImpStep

VertsReturn ==
    /\ phase = "vertices" /\ imp.pc = "loop" /\ imp.x = imp.numVerts
    /\ imp' = [imp EXCEPT !.pc = "returned"]
    /\ ImpStep

NextVerts ==
    \/ VertsRead
    \/ VertsLoop
    \/ VertsReturn

SpecVerts == InitVerts /\ [][NextVerts]_vars

\* the floats of vertex i that lie off floats into it, len of them, as they
\* stand in the file after the two header words
FileFloats(ws, i, off, len) ==
    [k \in 1..len |-> ws[2 + (i - 1) * Stride(ws[1]) + off + k]]

\* a channel of the result: n entries when its bit is set, none when not,
\* entry i being the floats of vertex i at the channel's place
ChannelIs(ws, channel, b, off, len) ==
    IF Bit(ws[1], b) = 1
    THEN /\ Len(channel) = ws[2]
         /\ \A i \in 1..ws[2] : channel[i] = FileFloats(ws, i, off, len)
    ELSE channel = <<>>

\* C23: for flags f and count n, _read_vertices consumes n * (4*[bit0] +
\* 3*[bit1] + 4*[bit2] + 2*[bit3]) floats, the channels of each vertex in
\* the order position, normal, colour, texcoord; each present channel has n
\* entries (3 of the 4 position floats, 3, 4, 2), each absent one is empty,
\* and entry i of every list belongs to vertex i.
VertexDecoding ==
    (phase = "vertices" /\ imp.pc = "returned") =>
        LET f == imp.ws[1]
            n == imp.ws[2]
        IN  /\ imp.o - 2 = n * (4 * Bit(f, 0) + 3 * Bit(f, 1) + 4 * Bit(f, 2)
                                + 2 * Bit(f, 3))
            /\ imp.idx = imp.o - 2
            /\ ChannelIs(imp.ws, imp.coords, 0, 0, 3)
            /\ ChannelIs(imp.ws, imp.normals, 1, 4 * Bit(f, 0), 3)
            /\ ChannelIs(imp.ws, imp.colors, 2, 4 * Bit(f, 0) + 3 * Bit(f, 1), 4)
            /\ ChannelIs(imp.ws, imp.texcoords, 3,
                         4 * Bit(f, 0) + 3 * Bit(f, 1) + 4 * Bit(f, 2), 2)

\* two vertices with all four channels were decoded, with words left over
VertexDecodingWitness ==
    /\ phase = "vertices" /\ imp.pc = "returned"
    /\ imp.flags = 15 /\ imp.numVerts = 2
    /\ Len(imp.ws) = 2 + 26 + 2
    /\ imp.coords = <<<<101, 102, 103>>, <<114, 115, 116>>>>
    /\ imp.texcoords = <<<<112, 113>>, <<125, 126>>>>

(***************************************************************************)
(* The shape of a keys value against the type of the node that holds it.   *)
(***************************************************************************)
\* every item of items is a sequence of arity entries
AllOfArity(items, arity) == \A i \in 1..Len(items) : Len(items[i]) = arity

\* keys has the per-key shape that belongs to type
KeysShapeIs(type, keys) ==
    CASE type = "xgVec3Interpolator" ->
            keys.shape = "tuples" /\ AllOfArity(keys.items, 3)
      [] type = "xgQuatInterpolator" ->
            keys.shape = "tuples" /\ AllOfArity(keys.items, 4)
      [] type = "xgTexCoordInterpolator" ->
            /\ keys.shape = "lists"
            /\ \A i \in 1..Len(keys.items) : AllOfArity(keys.items[i], 2)
      [] type \in {"xgVertexInterpolator", "xgNormalInterpolator"} ->
            /\ keys.shape = "lists"
            /\ \A i \in 1..Len(keys.items) : AllOfArity(keys.items[i], 3)
      [] type = "xgShapeInterpolator" -> keys.shape = "vertices"
      [] OTHER -> FALSE

\* C24: a keys property the reader has decoded has the per-key shape of the
\* type under which the node that holds it was declared.
KeysShapeByDeclaredType ==
    phase = "read" =>
        \A n \in 1..Len(xgscene.nodes) :
            "keys" \in AttrNames(xgscene.nodes[n]) =>
                KeysShapeIs(xgscene.nodes[n].type, GetAttr(xgscene.nodes[n], "keys"))

\* the same for the streams whose body headers name the declared type
KeysShapeByHeaderType ==
    (phase = "read" /\ ~obs.mismatch) =>
        \A n \in 1..Len(xgscene.nodes) :
            "keys" \in AttrNames(xgscene.nodes[n]) =>
                KeysShapeIs(xgscene.nodes[n].type, GetAttr(xgscene.nodes[n], "keys"))

\* a node declared as xgVec3Interpolator holds keys that are vertex buffers
KeysOfOtherType ==
    /\ phase = "read" /\ pc = "returned"
    /\ \E n \in 1..Len(xgscene.nodes) :
          /\ xgscene.nodes[n].type = "xgVec3Interpolator"
          /\ "keys" \in AttrNames(xgscene.nodes[n])
          /\ GetAttr(xgscene.nodes[n], "keys").shape = "vertices"

(***************************************************************************)
(* xgimporter.py: the rotation part of _load_animations for one matrix     *)
(* node and one clip.  A quaternion is <<w, x, y, z>>; the keys of the     *)
(* interpolator are <<x, y, z, w>>.  The bone's rest rotation is the       *)
(* identity, so that the difference of the rest rotation and the inverse   *)
(* of a key is the key's conjugate.  The clip has keyframe_interval 1.  In *)
(* imp:                                                                    *)
(*   keys     rot_interpolator.keys                                        *)
(*   start, length   the clip's start_keyframe_idx and playback_length     *)
(*   diff     rotkeys_uncorrected_diff                                     *)
(*   written  the keyframe points of the clip's four curves, as one        *)
(*            sequence of [frame, q]                                       *)
(***************************************************************************)
RotKeys == {<<0, 0, 0, 1>>, <<0, 0, 0, -1>>, <<1, 0, 0, 0>>, <<-1, 0, 0, 0>>}

\* Quaternion((w, x, y, z)) for x, y, z, w in keys
QuaternionOf(key) == <<key[4], key[1], key[2], key[3]>>

\* Quaternion().rotation_difference(q.inverted()) for a unit q
RotationDifference(q) == <<q[1], -q[2], -q[3], -q[4]>>

QuatDot(p, q) == p[1] * q[1] + p[2] * q[2] + p[3] * q[3] + p[4] * q[4]

Negated(q) == <<-q[1], -q[2], -q[3], -q[4]>>

\* quat2.make_compatible(quat1): of quat2 and its negation the one nearer
\* to quat1
make_compatible(quat2, quat1) ==
    IF QuatDot(quat1, quat2) < 0 THEN Negated(quat2) ELSE quat2

\* for quat1, quat2 in zip(diff, diff[1:]): quat2.make_compatible(quat1)
RECURSIVE MakeAllCompatible(_, _)
MakeAllCompatible(quats, i) ==
    IF i >= Len(quats) THEN quats
    ELSE MakeAllCompatible(
             [quats EXCEPT ![i + 1] = make_compatible(quats[i + 1], quats[i])],
             i + 1)

InitRot ==
    /\ phase = "rotation" /\ profile = "anim" /\ pc = "off"
    /\ IdleReader /\ IdleAnimSep /\ IdleVt
    /\ \E keys \in UNION {[1..n -> RotKeys] : n \in 1..MaxRotKeys},
          start \in 0..(MaxRotKeys - 1), length \in 0..(MaxRotKeys - 1) :
          imp = [pc |-> "keys", keys |-> keys, start |-> start, length |-> length,
                 diff |-> <<>>, written |-> <<>>]

\* rotkeys_uncorrected_absolute and rotkeys_uncorrected_diff
RotDiff ==
    /\ phase = "rotation" /\ imp.pc = "keys"
    /\ imp' = [imp EXCEPT !.pc = "diff",
                   !.diff = [i \in 1..Len(imp.keys) |->
                                RotationDifference(QuaternionOf(imp.keys[i]))]]
    /\ ImpStep

\* the make_compatible pass over the whole list
RotCompatible ==
    /\ phase = "rotation" /\ imp.pc = "diff"
    /\ imp' = [imp EXCEPT !.pc = "compatible", !.diff = MakeAllCompatible(@, 1)]
    /\ ImpStep

\* the keys of the clip's range, zipped with the clip's frame numbers
ClipSamples(quats, start, length) ==
    LET inrange == {i \in 1..Len(quats) : start <= i - 1 /\ i - 1 <= start + length}
    IN  [k \in 1..Cardinality(inrange) |-> [frame |-> k - 1, q |-> quats[start + k]]]

RotWrite ==
    /\ phase = "rotation" /\ imp.pc = "compatible"
    /\ imp' = [imp EXCEPT !.pc = "written",
                   !.written = ClipSamples(imp.diff, imp.start, imp.length)]
    /\ ImpStep

NextRot ==
    \/ RotDiff
    \/ RotCompatible
    \/ RotWrite

SpecRot == InitRot /\ [][NextRot]_vars

\* the keys of the list that lie in the clip's range
KeysOfClip ==
    [k \in 1..Cardinality({i \in 1..Len(imp.keys) :
                              imp.start <= i - 1 /\ i - 1 <= imp.start + imp.length}) |->
        imp.keys[imp.start + k]]

\* the samples of a clip whose first sample is as its key gives it and whose
\* every later sample is made compatible with the one before it
RECURSIVE WithinClip(_, _)
WithinClip(clipkeys, done) ==
    IF Len(done) = Len(clipkeys) THEN done
    ELSE LET q == RotationDifference(QuaternionOf(clipkeys[Len(done) + 1]))
         IN  WithinClip(clipkeys,
                        Append(done, IF done = <<>> THEN q
                                     ELSE IF QuatDot(done[Len(done)], q) < 0 THEN Negated(q)
                                     ELSE q))

\* C27: the rotation samples written for a clip are those of the keys in the
\* clip's range alone: the first is not adjusted to any sample outside the
\* range, each later one takes its sign from the sample before it.
RotationFixedWithinClip ==
    (phase = "rotation" /\ imp.pc = "written") =>
        [k \in 1..Len(imp.written) |-> imp.written[k].q] = WithinClip(KeysOfClip, <<>>)

\* what holds: each sample is its key's rotation or the negation of it,
\* consecutive samples of a clip are compatible, and a clip that starts at
\* keyframe 0 is as the claim says
RotationFixedAcrossClips ==
    (phase = "rotation" /\ imp.pc = "written") =>
        /\ Len(imp.written) = Len(KeysOfClip)
        /\ \A k \in 1..Len(imp.written) :
              LET q == RotationDifference(QuaternionOf(KeysOfClip[k]))
              IN  imp.written[k].q \in {q, Negated(q)}
        /\ \A k \in 1..(Len(imp.written) - 1) :
              QuatDot(imp.written[k].q, imp.written[k + 1].q) >= 0
        /\ imp.start = 0 =>
              [k \in 1..Len(imp.written) |-> imp.written[k].q]
                  = WithinClip(KeysOfClip, <<>>)

\* the clip of keyframe 1 alone has its sample negated because of keyframe 0
RotationSignFromOutside ==
    /\ phase = "rotation" /\ imp.pc = "written"
    /\ imp.keys = <<<<0, 0, 0, 1>>, <<0, 0, 0, -1>>>>
    /\ imp.start = 1 /\ imp.length = 0
    /\ imp.written = <<[frame |-> 0, q |-> <<1, 0, 0, 0>>]>>

(***************************************************************************)
(* xgimporter.py: how _load_animations maps the keyframes of one AnimSep   *)
(* entry to the frames of its action.  The keys of the curve are named by  *)
(* their indices 0, 1, ..  In imp:                                         *)
(*   entry      the AnimSepEntry                                           *)
(*   numkeys    how many keys the interpolator has                         *)
(*   framenums  animsep_framenums                                          *)
(*   end        animsep_end_keyframe                                       *)
(*   placed     the pairs (frame, key index) given to the curve            *)
(***************************************************************************)
ClipEntries ==
    [playback_length : -1..MaxPlayback, keyframe_interval : 0..3,
     start_keyframe_idx : -1..2, speed_mode : {1}]

InitClip ==
    /\ phase = "clip" /\ profile = "anim" /\ pc = "off"
    /\ IdleReader /\ IdleAnimSep /\ IdleVt
    /\ \E entry \in ClipEntries, numkeys \in {0, 2, MaxPlayback + 4} :
          imp = [pc |-> "entry", entry |-> entry, numkeys |-> numkeys,
                 framenums |-> <<>>, end |-> 0, placed |-> <<>>, exc |-> "none"]

\* animsep_end_keyframe and animsep_framenums
ClipRange ==
    /\ phase = "clip" /\ imp.pc = "entry"
    /\ imp' = IF imp.entry.keyframe_interval = 0
              THEN [imp EXCEPT !.pc = "raised", !.exc = "ZeroDivisionError"]
              ELSE [imp EXCEPT !.pc = "range", !.end = EndKeyframe(imp.entry),
                               !.framenums = FrameNums(imp.entry)]
    /\ ImpStep

\* animsep_axis_keys and zip(animsep_framenums, animsep_axis_keys)
ClipPlace ==
    /\ phase = "clip" /\ imp.pc = "range"
    /\ LET keyidxs == [k \in 1..imp.numkeys |-> <<k - 1>>]
       IN  imp' = [imp EXCEPT !.pc = "placed",
                       !.placed = Zip(imp.framenums,
                                      AxisKeysOf(keyidxs, 1, imp.entry))]
    /\ ImpStep

NextClip ==
    \/ ClipRange
    \/ ClipPlace

SpecClip == InitClip /\ [][NextClip]_vars

\* an entry with keyframe_interval > 0 and playback_length >= 0 whose
\* keyframes have been placed
ClipPlaced ==
    /\ phase = "clip" /\ imp.pc = "placed"
    /\ imp.entry.keyframe_interval > 0 /\ imp.entry.playback_length >= 0

\* the keyframe indices start .. end of the entry
KeyframeIdxs == imp.entry.start_keyframe_idx .. imp.end

\* C28 as stated: the keyframe indices and the frame numbers are equally
\* many, keyframe start + i is placed at frame i * keyframe_interval, and the
\* last frame is playback_length.
ClipRangeToPlaybackLength ==
    ClipPlaced =>
        /\ Cardinality(KeyframeIdxs) = Len(imp.framenums)
        /\ \A j \in 1..Len(imp.placed) :
              imp.placed[j] = <<(j - 1) * imp.entry.keyframe_interval,
                                imp.entry.start_keyframe_idx + (j - 1)>>
        /\ imp.framenums[Len(imp.framenums)] = imp.entry.playback_length

\* C28: the keyframe indices and the frame numbers are equally many,
\* playback_length div keyframe_interval + 1; frame number i is i *
\* keyframe_interval; for a start that is not negative, keyframe start + i
\* is placed at frame i * keyframe_interval, as far as the curve has keys;
\* the last frame is the largest multiple of keyframe_interval that does not
\* exceed playback_length, which is playback_length just when
\* keyframe_interval divides it.
ClipRangeMapping ==
    ClipPlaced =>
        LET L == imp.entry.playback_length
            K == imp.entry.keyframe_interval
            s == imp.entry.start_keyframe_idx
            n == Len(imp.framenums)
        IN  /\ Cardinality(KeyframeIdxs) = n
            /\ n = L \div K + 1
            /\ \A i \in 1..n : imp.framenums[i] = (i - 1) * K
            /\ imp.framenums[n] <= L /\ L < imp.framenums[n] + K
            /\ imp.framenums[n] = L <=> L % K = 0
            /\ s >= 0 =>
                  /\ Len(imp.placed) = Cardinality(KeyframeIdxs \cap 0..(imp.numkeys - 1))
                  /\ \A j \in 1..Len(imp.placed) :
                        imp.placed[j] = <<(j - 1) * K, s + (j - 1)>>

\* playback_length 3 with keyframe_interval 2 from keyframe 1: two keyframes,
\* at the frames 0 and 2
ClipRangeWitness ==
    /\ ClipPlaced
    /\ imp.entry.playback_length = 3 /\ imp.entry.keyframe_interval = 2
    /\ imp.entry.start_keyframe_idx = 1
    /\ imp.placed = << <<0, 1>>, <<2, 2>> >>

(***************************************************************************)
(* The order of the stages of import_xgscene after the hierarchy, and what *)
(* a bone has behind it when it is posed or animated.                      *)
(***************************************************************************)
\* the bone named after matrix node name belongs to an xgBone
BoneOfXgBone(name) == \E k \in 1..Len(imp.xgbones) : imp.xgbones[k].matrix = name

\* the rest pose and rest scale of every xgBone's bone have been computed
AllRestComputed ==
    \A k \in 1..Len(imp.xgbones) : Mapped(imp.restscale, imp.xgbones[k].matrix)

\* C29 as stated: the stages run in the order rest-pose computation, default
\* posing, animation loading, and no bone is default-posed or given keyframes
\* unless its rest pose and rest scale have been computed before.
NoBoneBeforeItsRest ==
    phase = "restscale" =>
        /\ imp.pose # <<>> => imp.pc \in {"pose", "anim", "done"}
        /\ imp.fcurves # <<>> => imp.pc \in {"anim", "done"}
        /\ \A k \in 1..Len(imp.pose) : Mapped(imp.restscale, imp.pose[k].node)
        /\ \A c \in 1..Len(imp.fcurves) : Mapped(imp.restscale, imp.fcurves[c].bone)

\* C29: the stages run in the order rest-pose computation, default posing,
\* animation loading, each finished before the next begins; no bone is
\* default-posed unless its rest pose and rest scale have been computed, and
\* no bone of an xgBone is given keyframes unless its rest has been computed
\* and it has been default-posed.
StagesInOrder ==
    phase = "restscale" =>
        /\ imp.pose # <<>> => imp.pc \in {"pose", "anim", "done"}
        /\ imp.fcurves # <<>> => imp.pc \in {"anim", "done"}
        /\ imp.pc \in {"pose", "anim", "done"} => AllRestComputed
        /\ imp.pc \in {"anim", "done"} =>
              \A k \in 1..Len(imp.xgbones) : Mapped(imp.pose, imp.xgbones[k].matrix)
        /\ \A k \in 1..Len(imp.pose) :
              BoneOfXgBone(imp.pose[k].node) /\ Mapped(imp.restscale, imp.pose[k].node)
        /\ \A c \in 1..Len(imp.fcurves) :
              BoneOfXgBone(imp.fcurves[c].bone) =>
                  /\ Mapped(imp.restscale, imp.fcurves[c].bone)
                  /\ Mapped(imp.pose, imp.fcurves[c].bone)

\* both bones have their rest, their pose and their curves
StagesInOrderWitness ==
    /\ phase = "restscale" /\ imp.pc = "done"
    /\ Len(imp.xgbones) = 2 /\ Len(imp.restscale) = 2 /\ Len(imp.pose) = 2
    /\ \E c \in 1..Len(imp.fcurves) : imp.fcurves[c].bone = "X1"
    /\ \E c \in 1..Len(imp.fcurves) : imp.fcurves[c].bone = "X2"

\* the bone of matrix X2, which no xgBone has, was given keyframes without a
\* rest pose or rest scale
AnimatedWithoutRest ==
    /\ phase = "restscale" /\ imp.pc = "done"
    /\ ~BoneOfXgBone("X2") /\ ~Mapped(imp.restscale, "X2")
    /\ \E c \in 1..Len(imp.fcurves) : imp.fcurves[c].bone = "X2"

(***************************************************************************)
(* xgscenereader.py and xgimporter.py: a scene of one transform T and the  *)
(* matrices X1 and X2 is read item by item, as in read_xgscene, and then   *)
(* _init_bone_hierarchy(T) walks from T's inputMatrix[0] along             *)
(* inputParentMatrix[0], one action for each pass of its while loop.  In   *)
(* imp:                                                                    *)
(*   scene, items   as in the reading above                                *)
(*   cur      cur_mtxnode, 0 before the walk                               *)
(*   bones    the matrix nodes _init_bonematrix was called on, in order    *)
(*   parents  the pairs (bone, parent) of the parent assignments           *)
(*   lap      the parity of the number of passes of the loop               *)
(***************************************************************************)
WalkNames == {"T", "X1", "X2"}

WalkTypeOf(nodename) == IF nodename = "T" THEN "xgDagTransform" ELSE "xgBgMatrix"

WalkInputOf(nodename) == IF nodename = "T" THEN "inputMatrix" ELSE "inputParentMatrix"

InitWalk ==
    /\ phase = "walk" /\ profile = "dag" /\ pc = "off"
    /\ IdleReader /\ IdleAnimSep /\ IdleVt
    /\ imp = [pc |-> "top", scene |-> EmptyScene, items |-> 0, exc |-> "none",
              cur |-> 0, bones |-> <<>>, parents |-> {}, lap |-> 0]

\* "type name ;" for a name the stream has not declared
WalkDeclare ==
    /\ phase = "walk" /\ imp.pc = "top" /\ imp.items < MaxWalkItems
    /\ \E nodename \in WalkNames :
          /\ ~HasNode(imp.scene, nodename)
          /\ imp' = [imp EXCEPT
                        !.scene = preadd_node(@, new_xgnode(nodename,
                                                            WalkTypeOf(nodename))),
                        !.items = @ + 1]
    /\ ImpStep

\* "type name { input inputnodename outputMatrix }"
WalkDefine ==
    /\ phase = "walk" /\ imp.pc = "top" /\ imp.items < MaxWalkItems
    /\ \E nodename \in WalkNames, inputnodename \in {"X1", "X2"} :
          imp' = DefineNode(imp, nodename, WalkInputOf(nodename), inputnodename)
    /\ ImpStep

\* the empty token: read_xgscene returns the scene
WalkRead ==
    /\ phase = "walk" /\ imp.pc = "top"
    /\ imp' = [imp EXCEPT !.pc = "returned"]
    /\ ImpStep

\* self._init_bonematrix(matrixnode), as far as the walk is concerned
WalkBone(st, matrixnode) ==
    IF \E k \in 1..Len(st.bones) : st.bones[k] = matrixnode THEN st
    ELSE [st EXCEPT !.bones = Append(@, matrixnode)]

\* _init_bone_hierarchy(T) up to its while loop
WalkBegin ==
    /\ phase = "walk" /\ imp.pc = "returned"
    /\ HasNode(imp.scene, "T")
    /\ hasattr(imp.scene.nodes[get_node(imp.scene, "T")], "inputMatrix")
    /\ LET mtx == FirstInput(imp.scene.nodes[get_node(imp.scene, "T")], "inputMatrix")
       IN  imp' = [WalkBone(imp, mtx) EXCEPT !.pc = "walk", !.cur = mtx]
    /\ ImpStep

\* one pass of "while hasattr(cur_mtxnode, 'inputParentMatrix')"
WalkStep ==
    /\ phase = "walk" /\ imp.pc = "walk"
    /\ hasattr(imp.scene.nodes[imp.cur], "inputParentMatrix")
    /\ LET par_mtxnode == FirstInput(imp.scene.nodes[imp.cur], "inputParentMatrix")
       IN  imp' = [WalkBone(imp, par_mtxnode) EXCEPT
                      !.parents = @ \cup {<<imp.cur, par_mtxnode>>},
                      !.cur = par_mtxnode,
                      !.lap = 1 - @]
    /\ ImpStep

\* the loop ends at a matrix node without inputParentMatrix
WalkEnd ==
    /\ phase = "walk" /\ imp.pc = "walk"
    /\ ~hasattr(imp.scene.nodes[imp.cur], "inputParentMatrix")
    /\ imp' = [imp EXCEPT !.pc = "walked"]
    /\ ImpStep

NextWalk ==
    \/ WalkDeclare
    \/ WalkDefine
    \/ WalkRead
    \/ WalkBegin
    \/ WalkStep
    \/ WalkEnd

SpecWalk == InitWalk /\ [][NextWalk]_vars

\* the statements of _init_bone_hierarchy run one after the other
SpecWalkFair == SpecWalk /\ WF_vars(WalkStep) /\ WF_vars(WalkEnd)

\* n is on a cycle of inputParentMatrix[0] edges
RECURSIVE ParentReaches(_, _, _)
ParentReaches(n, target, fuel) ==
    /\ fuel > 0
    /\ hasattr(imp.scene.nodes[n], "inputParentMatrix")
    /\ LET p == FirstInput(imp.scene.nodes[n], "inputParentMatrix")
       IN  p = target \/ ParentReaches(p, target, fuel - 1)

ParentCycle ==
    \E n \in 1..Len(imp.scene.nodes) : ParentReaches(n, n, Len(imp.scene.nodes))

\* C30: for every scene read_xgscene can return, the walk of
\* _init_bone_hierarchy from a bone's inputMatrix[0] along
\* inputParentMatrix[0] comes to a matrix node without inputParentMatrix.
ParentWalkTerminates ==
    (phase = "walk" /\ imp.pc = "walk") ~> (imp.pc = "walked")

\* the same for the scenes without a cycle of inputParentMatrix[0] edges
ParentWalkTerminatesAcyclic ==
    (phase = "walk" /\ imp.pc = "walk" /\ ~ParentCycle) ~> (imp.pc = "walked")

\* the walk stands at matrix X1, which is its own parent, after a pass of the
\* loop
ParentWalkInCycle ==
    /\ phase = "walk" /\ imp.pc = "walk" /\ imp.lap = 1
    /\ imp.scene.nodes[imp.cur].name = "X1"
    /\ FirstInput(imp.scene.nodes[imp.cur], "inputParentMatrix") = imp.cur
    /\ <<imp.cur, imp.cur>> \in imp.parents

====
